---------------------------- MODULE Spec2Model ----------------------------
(***************************************************************************)
(* The evaluator of the cashly DSL (src/src/evaluator/engine.rs) as a      *)
(* state machine: a call of Engine::evaluate on a Program walks the        *)
(* statements, sorts the records by date, replays them and builds the      *)
(* AnalysisReport.  A call of Lexer::tokenize on a text (src/src/dsl/      *)
(* lexer.rs) scans one token per step, and a call of Parser::parse on a    *)
(* token list (src/src/dsl/parser.rs) parses one statement per step.       *)
(*                                                                         *)
(* Strings that the code only compares for equality (alias, unit, note,    *)
(* names) are TLA+ strings.  Strings that the code orders or concatenates  *)
(* (dates, symbols) are sequences of byte values.  An Option is a tuple:   *)
(* None is <<>> and Some(v) is <<v>>.  An f64 is an integer multiple of a  *)
(* fixed unit, kept to Precision significant bits by rounding to nearest,  *)
(* ties to even, after every arithmetic operation.                         *)
(***************************************************************************)
EXTENDS Integers, Sequences, FiniteSets, TLC

VARIABLES program, pc, i, record_statements, state, result, run, first,
          lexer, tokens, lexed, parser, statements, parsed

vars == <<program, pc, i, record_statements, state, result, run, first,
          lexer, tokens, lexed, parser, statements, parsed>>

\* the variables of a call of Engine::evaluate, of Lexer::tokenize and of
\* Parser::parse
engine_vars == <<program, i, record_statements, state, result, run, first>>

lexer_vars == <<lexer, tokens, lexed>>

parser_vars == <<parser, statements, parsed>>

(***************************************************************************)
(* Bounds                                                                  *)
(***************************************************************************)
\* longest program evaluated
MaxStmts == 3

\* most pieces of text in an input of the lexer
MaxPieces == 4

\* longest run of digits in an input of the lexer
MaxDigits == 8

\* most statements in a token list given to the parser
MaxParsed == 2

\* significant bits of the floating-point format (53 for f64)
Precision == 3

(***************************************************************************)
(* Options, maps, sequences                                                *)
(***************************************************************************)
None == <<>>

Some(v) == <<v>>

EmptyMap == <<>>

MapPut(m, k, v) == [x \in (DOMAIN m) \cup {k} |-> IF x = k THEN v ELSE m[x]]

Range(s) == {s[k] : k \in DOMAIN s}

SeqsUpTo(S, n) == UNION {[1..k -> S] : k \in 0..n}

Perms(S) == {f \in [1..Cardinality(S) -> S] : \A a, b \in 1..Cardinality(S) : a # b => f[a] # f[b]}

\* let x = value; ...: the value is computed once, then Rest reads it as x
Let(value, Rest(_)) == CHOOSE out \in {Rest(x) : x \in {value}} : TRUE

RECURSIVE Pow2(_)
Pow2(n) == IF n = 0 THEN 1 ELSE 2 * Pow2(n - 1)

(***************************************************************************)
(* f64 arithmetic: round to nearest, ties to even                          *)
(***************************************************************************)
RECURSIVE Ulp(_)
Ulp(m) == IF m < Pow2(Precision) THEN 1 ELSE Let(m \div 2, LAMBDA half : 2 * Ulp(half))

RoundMag(m) ==
    Let(Ulp(m), LAMBDA u :
    Let(m \div u, LAMBDA q :
    Let(m % u, LAMBDA r :
        IF 2 * r < u THEN q * u
        ELSE IF 2 * r > u THEN (q + 1) * u
        ELSE IF q % 2 = 0 THEN q * u ELSE (q + 1) * u)))

Round(x) == Let(x, LAMBDA exact : IF exact < 0 THEN 0 - RoundMag(0 - exact) ELSE RoundMag(exact))

FAdd(a, b) == Round(a + b)

FSub(a, b) == Round(a - b)

(***************************************************************************)
(* dsl/ast.rs                                                              *)
(***************************************************************************)
Symbol_new(namespace, name) == [namespace |-> namespace, name |-> name]

\* impl Display for Symbol: "{}:{}"
to_string(sym) == sym.namespace \o <<58>> \o sym.name

SignedAmount_to_f64(sa) == IF sa.sign = "Positive" THEN sa.value ELSE 0 - sa.value

buy(trade) == trade.signed_amount.sign = "Positive"

sell(trade) == trade.signed_amount.sign = "Negative"

get_symbol(details) == details.symbol

\* String::cmp: lexicographic comparison of the bytes
RECURSIVE StrCmp(_, _)
StrCmp(a, b) ==
    IF a = <<>> /\ b = <<>> THEN "Equal"
    ELSE IF a = <<>> THEN "Less"
    ELSE IF b = <<>> THEN "Greater"
    ELSE IF Head(a) < Head(b) THEN "Less"
    ELSE IF Head(a) > Head(b) THEN "Greater"
    ELSE StrCmp(Tail(a), Tail(b))

(***************************************************************************)
(* evaluator/engine.rs: data                                               *)
(***************************************************************************)
Asset_new(symbol, alias, target_return) ==
    [symbol |-> symbol, alias |-> alias, target_return |-> target_return]

EngineState_new ==
    [portfolios |-> <<>>, plans |-> <<>>, assets |-> EmptyMap,
     record_outputs |-> <<>>, snapshots |-> EmptyMap]

AssetMetric_new_zero == [total_purchase |-> 0, total_sale |-> 0, value |-> 0]

AssetMetric_from_record(output) ==
    [total_purchase |-> output.total_purchase,
     total_sale |-> output.total_sale,
     value |-> output.value]

\* a wrong sign on total_sale
get_profit_minus_sale(metric) ==
    FSub(FSub(metric.value, metric.total_purchase), metric.total_sale)

get_profit(metric) == FAdd(FSub(metric.value, metric.total_purchase), metric.total_sale)

from_record_with_metric(record, metric) ==
    [program |-> record,
     total_purchase |-> metric.total_purchase,
     total_sale |-> metric.total_sale,
     value |-> metric.value,
     profit |-> get_profit(metric)]

Snapshot_from_output(output) ==
    [symbol |-> to_string(get_symbol(output.program.details)),
     date |-> output.program.date,
     statement |-> output.program,
     total_purchase |-> output.total_purchase,
     total_sale |-> output.total_sale,
     value |-> output.value,
     profit |-> output.profit]

DailySnapshot_new(symbol, date, snapshots) ==
    [symbol |-> symbol, date |-> date, snapshots |-> snapshots]

(***************************************************************************)
(* evaluator/engine.rs: EngineState                                        *)
(***************************************************************************)
\* update_portfolio_assets that leaves the portfolios as they are
update_portfolio_assets_skipped(st, asset) == st

update_portfolio_assets(st, asset) ==
    [st EXCEPT !.portfolios =
        [p \in DOMAIN @ |->
            [@[p] EXCEPT !.assets =
                [k \in DOMAIN @ |->
                    IF @[k].symbol = asset.symbol THEN asset ELSE @[k]]]]]

\* overwrites both fields whether or not the statement supplies them
upsert_asset_overwrite(st, args) ==
    IF args.symbol \in DOMAIN st.assets
    THEN LET a2 == [st.assets[args.symbol] EXCEPT !.alias = args.name,
                                                  !.target_return = args.target_return]
         IN  update_portfolio_assets([st EXCEPT !.assets[args.symbol] = a2], a2)
    ELSE [st EXCEPT !.assets =
            MapPut(@, args.symbol, Asset_new(args.symbol, args.name, args.target_return))]

upsert_asset(st, args) ==
    IF args.symbol \in DOMAIN st.assets
    THEN LET old == st.assets[args.symbol]
             a1 == IF args.name # None THEN [old EXCEPT !.alias = args.name] ELSE old
             a2 == IF args.target_return # None
                   THEN [a1 EXCEPT !.target_return = args.target_return]
                   ELSE a1
         IN  update_portfolio_assets([st EXCEPT !.assets[args.symbol] = a2], a2)
    ELSE [st EXCEPT !.assets =
            MapPut(@, args.symbol, Asset_new(args.symbol, args.name, args.target_return))]

\* a sell booked with its magnitude: value grows
apply_details_unsigned(last, details) ==
    IF details.kind = "Trade"
    THEN LET value == details.signed_amount.value
             m == IF buy(details)
                  THEN [last EXCEPT !.total_purchase = FAdd(last.total_purchase, value)]
                  ELSE [last EXCEPT !.total_sale = FAdd(last.total_sale, value)]
         IN  [m EXCEPT !.value = FAdd(last.value, value)]
    ELSE [last EXCEPT !.value = details.value]

\* a mark treated as a fresh start: the totals are reset
apply_details_mark_resets(last, details) ==
    IF details.kind = "Trade"
    THEN LET value == details.signed_amount.value
             m == IF buy(details)
                  THEN [last EXCEPT !.total_purchase = FAdd(last.total_purchase, value)]
                  ELSE [last EXCEPT !.total_sale = FAdd(last.total_sale, value)]
         IN  [m EXCEPT !.value = FAdd(last.value, SignedAmount_to_f64(details.signed_amount))]
    ELSE [value |-> details.value, total_purchase |-> 0, total_sale |-> 0]

apply_details(last, details) ==
    IF details.kind = "Trade"
    THEN LET value == details.signed_amount.value
             m == IF buy(details)
                  THEN [last EXCEPT !.total_purchase = FAdd(last.total_purchase, value)]
                  ELSE [last EXCEPT !.total_sale = FAdd(last.total_sale, value)]
         IN  [m EXCEPT !.value = FAdd(last.value, SignedAmount_to_f64(details.signed_amount))]
    ELSE [last EXCEPT !.value = details.value,
                      !.total_purchase = last.total_purchase,
                      !.total_sale = last.total_sale]

\* a mark on a symbol with no earlier record refused
calc_asset_needs_prior(st, record) ==
    LET symbol == to_string(get_symbol(record.details))
        last == IF symbol \in DOMAIN st.snapshots
                THEN AssetMetric_from_record(st.snapshots[symbol])
                ELSE AssetMetric_new_zero
        output == from_record_with_metric(record, apply_details(last, record.details))
    IN  IF record.details.kind = "Mark" /\ symbol \notin DOMAIN st.snapshots
        THEN [ok |-> FALSE, st |-> st]
        ELSE [ok |-> TRUE,
              st |-> [st EXCEPT !.record_outputs = Append(@, output),
                                !.snapshots = MapPut(@, symbol, output)]]

\* one running metric for all symbols: last is the latest output of any symbol
calc_asset_shared_metric(st, record) ==
    LET symbol == to_string(get_symbol(record.details))
        last == IF st.record_outputs # <<>>
                THEN AssetMetric_from_record(st.record_outputs[Len(st.record_outputs)])
                ELSE AssetMetric_new_zero
        output == from_record_with_metric(record, apply_details(last, record.details))
    IN  [ok |-> TRUE,
         st |-> [st EXCEPT !.record_outputs = Append(@, output),
                           !.snapshots = MapPut(@, symbol, output)]]

calc_asset(st, record) ==
    LET symbol == to_string(get_symbol(record.details))
        last == IF symbol \in DOMAIN st.snapshots
                THEN AssetMetric_from_record(st.snapshots[symbol])
                ELSE AssetMetric_new_zero
        new_snapshot == apply_details(last, record.details)
        output == from_record_with_metric(record, new_snapshot)
    IN  [ok |-> TRUE,
         st |-> [st EXCEPT !.record_outputs = Append(@, output),
                           !.snapshots = MapPut(@, symbol, output)]]

\* update_portfolio with every listed symbol resolved to a placeholder
update_portfolio_placeholders(st, statement) ==
    LET portfolio ==
            [name |-> statement.name,
             assets |-> [k \in DOMAIN statement.assets |->
                            Asset_new(to_string(statement.assets[k]), None, None)],
             target_return |-> IF statement.target_return = None
                               THEN 0 ELSE statement.target_return[1]]
    IN  [ok |-> TRUE, st |-> [st EXCEPT !.portfolios = Append(@, portfolio)]]

\* update_portfolio that enters its placeholders into the registry
update_portfolio_registers(st, statement) ==
    LET symbols == {to_string(statement.assets[k]) : k \in DOMAIN statement.assets}
        assets == [x \in (DOMAIN st.assets) \cup symbols |->
                     IF x \in DOMAIN st.assets THEN st.assets[x]
                     ELSE Asset_new(x, None, None)]
        portfolio ==
            [name |-> statement.name,
             assets |-> [k \in DOMAIN statement.assets |->
                            assets[to_string(statement.assets[k])]],
             target_return |-> IF statement.target_return = None
                               THEN 0 ELSE statement.target_return[1]]
    IN  [ok |-> TRUE,
         st |-> [st EXCEPT !.assets = assets, !.portfolios = Append(@, portfolio)]]

update_portfolio(st, statement) ==
    LET portfolio ==
            [name |-> statement.name,
             assets |-> [k \in DOMAIN statement.assets |->
                            LET symbol == to_string(statement.assets[k])
                            IN  IF symbol \in DOMAIN st.assets
                                THEN st.assets[symbol]
                                ELSE Asset_new(symbol, None, None)],
             target_return |-> IF statement.target_return = None
                               THEN 0 ELSE statement.target_return[1]]
    IN  [ok |-> TRUE, st |-> [st EXCEPT !.portfolios = Append(@, portfolio)]]

(***************************************************************************)
(* evaluator/engine.rs: Engine                                             *)
(***************************************************************************)
\* one engine state shared by every Engine of the process
Engine_new_shared ==
    IF pc = "done"
    THEN state
    ELSE [portfolios |-> <<>>, plans |-> <<>>, assets |-> EmptyMap,
          record_outputs |-> <<>>, snapshots |-> EmptyMap]

Engine_new ==
    [portfolios |-> <<>>, plans |-> <<>>, assets |-> EmptyMap,
     record_outputs |-> <<>>, snapshots |-> EmptyMap]

evaluate_record(st, record) ==
    calc_asset(upsert_asset(st, [symbol |-> to_string(get_symbol(record.details)),
                                 name |-> None,
                                 target_return |-> None]),
               record)

\* never called by evaluate
evaluate_plan(st, plan) == [ok |-> TRUE, st |-> st]

\* a plan that registers the targets of its schedules as assets
statement_plan_registers(st, plan) ==
    LET targets == {to_string(plan.rules[k].target) :
                      k \in {j \in DOMAIN plan.rules : plan.rules[j].kind = "Schedule"}}
    IN  [st EXCEPT !.assets =
            [x \in (DOMAIN @) \cup targets |->
                IF x \in DOMAIN @ THEN @[x] ELSE Asset_new(x, None, None)]]

\* the match arm of evaluate for a plan: Statement::Plan(_) => {}
statement_plan(st, plan) == st

evaluate_define(st, define) ==
    [ok |-> TRUE,
     st |-> upsert_asset(st, [symbol |-> to_string(define.symbol),
                              name |-> define.alias,
                              target_return |-> define.target_return])]

evaluate_portfolio(st, statement) == update_portfolio(st, statement)

\* dates compared as numbers: the shorter string first
date_cmp_numeric(a, b) ==
    IF Len(a.date) < Len(b.date) THEN "Less"
    ELSE IF Len(a.date) > Len(b.date) THEN "Greater"
    ELSE StrCmp(a.date, b.date)

\* the comparator of record_statements.sort_by
date_cmp(a, b) == StrCmp(a.date, b.date)

\* an unstable sort: x goes before the elements that compare Equal to it
RECURSIVE insert_sorted_unstable(_, _)
insert_sorted_unstable(s, x) ==
    IF s = <<>> THEN <<x>>
    ELSE IF date_cmp(Head(s), x) # "Less" THEN <<x>> \o s
    ELSE <<Head(s)>> \o insert_sorted_unstable(Tail(s), x)

\* where a stable sort puts x among the already sorted s: after every element
\* that does not compare Greater than x
RECURSIVE insert_sorted(_, _)
insert_sorted(s, x) ==
    IF s = <<>> THEN <<x>>
    ELSE IF date_cmp(Head(s), x) = "Greater" THEN <<x>> \o s
    ELSE <<Head(s)>> \o insert_sorted(Tail(s), x)

RECURSIVE sort_by_date(_)
sort_by_date(s) ==
    IF s = <<>> THEN <<>>
    ELSE insert_sorted(sort_by_date(SubSeq(s, 1, Len(s) - 1)), s[Len(s)])

\* an aggregation that keeps only the latest snapshot of a day
aggregate_output_latest(daily, output) ==
    LET symbol == to_string(get_symbol(output.program.details))
        date == output.program.date
        by_symbol == IF symbol \in DOMAIN daily THEN daily[symbol] ELSE <<>>
        found == {k \in DOMAIN by_symbol : by_symbol[k].date = date}
        snap == Snapshot_from_output(output)
    IN  IF found # {}
        THEN LET k == CHOOSE k \in found : \A j \in found : k <= j
             IN  MapPut(daily, symbol, [by_symbol EXCEPT ![k].snapshots = <<snap>>])
        ELSE MapPut(daily, symbol,
                    Append(by_symbol, DailySnapshot_new(symbol, date, <<snap>>)))

\* one iteration of the aggregation loop of evaluate
aggregate_output(daily, output) ==
    LET symbol == to_string(get_symbol(output.program.details))
        date == output.program.date
        by_symbol == IF symbol \in DOMAIN daily THEN daily[symbol] ELSE <<>>
        found == {k \in DOMAIN by_symbol : by_symbol[k].date = date}
        snap == Snapshot_from_output(output)
    IN  IF found # {}
        THEN LET k == CHOOSE k \in found : \A j \in found : k <= j
             IN  MapPut(daily, symbol,
                        [by_symbol EXCEPT ![k].snapshots = Append(@, snap)])
        ELSE MapPut(daily, symbol,
                    Append(by_symbol, DailySnapshot_new(symbol, date, <<snap>>)))

RECURSIVE aggregate(_, _)
aggregate(daily, outputs) ==
    IF outputs = <<>> THEN daily
    ELSE aggregate(aggregate_output(daily, Head(outputs)), Tail(outputs))

\* the orders in which HashMap::values may yield the assets
assets_values(assets) == {[k \in DOMAIN order |-> assets[order[k]]] : order \in Perms(DOMAIN assets)}

build_report(st, asset_list) ==
    [assets |-> asset_list,
     portfolios |-> st.portfolios,
     daily_snapshot |-> aggregate(EmptyMap, st.record_outputs)]

(***************************************************************************)
(* Programs evaluated                                                      *)
(***************************************************************************)
\* "A:X", "B:Y", "C:Z"
SymAX == Symbol_new(<<65>>, <<88>>)

SymBY == Symbol_new(<<66>>, <<89>>)

SymCZ == Symbol_new(<<67>>, <<90>>)

\* the dates "10" and "9": "10" sorts before "9"
Date10 == <<49, 48>>

Date9 == <<57>>

Dates == {Date10, Date9}

Trade(date, sym, sign, value) ==
    [kind |-> "Record",
     record |-> [date |-> date, action |-> "Trade",
                 details |-> [kind |-> "Trade", symbol |-> sym,
                              signed_amount |-> [sign |-> sign, value |-> value],
                              unit |-> "CNY", price |-> None],
                 note |-> None]]

Mark(date, sym, value) ==
    [kind |-> "Record",
     record |-> [date |-> date, action |-> "Mark",
                 details |-> [kind |-> "Mark", symbol |-> sym, value |-> value,
                              unit |-> "CNY"],
                 note |-> None]]

Define(sym, alias, target_return) ==
    [kind |-> "Define",
     define |-> [symbol |-> sym, alias |-> alias, target_return |-> target_return]]

PortfolioStmt(name, assets, target_return) ==
    [kind |-> "Portfolio",
     portfolio |-> [name |-> name, assets |-> assets, target_return |-> target_return]]

PlanStmt(name, rules) == [kind |-> "Plan", plan |-> [name |-> name, rules |-> rules]]

Schedule(sym) ==
    [kind |-> "Schedule", frequency |-> "Monthly", amount |-> 2, unit |-> "CNY",
     target |-> sym]

\* records of one symbol: a buy that fills the mantissa, a small sell, a small
\* buy and a mark, on either date; one record of a second symbol; one statement
\* of every other kind
RecordStatements ==
    {Trade(d, SymAX, "Positive", Pow2(Precision)) : d \in Dates}
        \cup {Trade(d, SymAX, "Negative", 1) : d \in Dates}
        \cup {Trade(d, SymAX, "Positive", 2) : d \in Dates}
        \cup {Mark(d, SymAX, 5) : d \in Dates}
        \cup {Mark(Date9, SymBY, 3),
              Define(SymAX, Some("a"), Some(9)),
              PortfolioStmt("P", <<SymAX, SymBY>>, None),
              PlanStmt("M", <<Schedule(SymCZ)>>)}

\* defines of one symbol with each field given or not, a define of a second
\* symbol, two portfolios, one record, one plan
DefineStatements ==
    {Define(SymAX, None, None),
     Define(SymAX, Some("a"), None),
     Define(SymAX, None, Some(7)),
     Define(SymAX, Some("b"), Some(9)),
     Define(SymBY, Some("a"), Some(7)),
     PortfolioStmt("P", <<SymAX, SymBY>>, None),
     PortfolioStmt("Q", <<SymAX>>, Some(9)),
     Trade(Date9, SymAX, "Positive", 1),
     PlanStmt("M", <<Schedule(SymCZ)>>)}

\* two plans, records of two symbols on two dates, a define, a portfolio
PlanStatements ==
    {PlanStmt("M", <<Schedule(SymCZ), [kind |-> "StartDate", date |-> Date9]>>),
     PlanStmt("N", <<Schedule(SymBY)>>),
     Trade(Date9, SymAX, "Positive", 2),
     Mark(Date10, SymAX, 5),
     Trade(Date9, SymBY, "Negative", 1),
     Define(SymAX, Some("a"), Some(9)),
     PortfolioStmt("P", <<SymAX, SymCZ>>, None)}

(***************************************************************************)
(* Characters and strings of the DSL text (src/src/dsl/lexer.rs)           *)
(*                                                                         *)
(* A char is its code point and a String or Vec<char> is a sequence of     *)
(* code points.  Chars(<<"E", "N", "D">>) is the string "END".             *)
(***************************************************************************)
\* the printable ASCII characters, from ' ' (32) to '~' (126); the grave
\* accent (96), which no input has, is left out
Ascii ==
    <<" ", "!", "\"", "#", "$", "%", "&", "'", "(", ")", "*", "+", ",", "-", ".", "/",
      "0", "1", "2", "3", "4", "5", "6", "7", "8", "9", ":", ";", "<", "=", ">", "?",
      "@", "A", "B", "C", "D", "E", "F", "G", "H", "I", "J", "K", "L", "M", "N", "O",
      "P", "Q", "R", "S", "T", "U", "V", "W", "X", "Y", "Z", "[", "\\", "]", "^", "_",
      "",  "a", "b", "c", "d", "e", "f", "g", "h", "i", "j", "k", "l", "m", "n", "o",
      "p", "q", "r", "s", "t", "u", "v", "w", "x", "y", "z", "{", "|", "}", "~">>

\* the code point of a character written as a one-character string
CodePoint ==
    [c \in Range(Ascii) \cup {"\t", "\n", "\r"} |->
        CASE c = "\t" -> 9
          [] c = "\n" -> 10
          [] c = "\r" -> 13
          [] OTHER -> 31 + (CHOOSE k \in DOMAIN Ascii : Ascii[k] = c)]

Ch(c) == CodePoint[c]

Chars(s) == [k \in DOMAIN s |-> CodePoint[s[k]]]

\* '\0', what peek and advance return at the end of the input
NUL == 0

\* '0'..='9', char::is_ascii_digit
is_ascii_digit(ch) == ch \in Ch("0")..Ch("9")

\* 'A'..='Z' | 'a'..='z' | '0'..='9' | '_'
is_identifier_char(ch) ==
    \/ ch \in Ch("A")..Ch("Z")
    \/ ch \in Ch("a")..Ch("z")
    \/ ch \in Ch("0")..Ch("9")
    \/ ch = Ch("_")

\* 'A'..='Z' | 'a'..='z' | '_'
is_identifier_start(ch) ==
    \/ ch \in Ch("A")..Ch("Z")
    \/ ch \in Ch("a")..Ch("z")
    \/ ch = Ch("_")

\* str::to_uppercase on the characters the lexer lets into a word
to_uppercase(s) ==
    [k \in DOMAIN s |-> IF s[k] \in Ch("a")..Ch("z") THEN s[k] - 32 ELSE s[k]]

\* the value of a run of decimal digits
RECURSIVE DigitsValue(_)
DigitsValue(ds) ==
    IF ds = <<>> THEN 0
    ELSE Let(SubSeq(ds, 1, Len(ds) - 1), LAMBDA front :
             10 * DigitsValue(front) + (ds[Len(ds)] - Ch("0")))

RECURSIVE Pow10(_)
Pow10(n) == IF n = 0 THEN 1 ELSE 10 * Pow10(n - 1)

\* the index of the first occurrence of ch in s, Len(s) + 1 if there is none
IndexOf(s, ch) ==
    IF \E k \in DOMAIN s : s[k] = ch
    THEN CHOOSE k \in DOMAIN s : s[k] = ch /\ \A j \in 1..(k - 1) : s[j] # ch
    ELSE Len(s) + 1

\* str::parse::<f64> on a text of digits, '.', '+' and '-': an optional sign,
\* digits with at most one '.', at least one digit.  The value is the decimal
\* rounded to the nearest multiple of the unit (ties to even), then to the
\* precision of the format.
parse_f64(s) ==
    Let(s # <<>> /\ s[1] \in {Ch("-"), Ch("+")}, LAMBDA signed :
    Let(IF signed THEN SubSeq(s, 2, Len(s)) ELSE s, LAMBDA body :
    Let(IndexOf(body, Ch(".")), LAMBDA dot :
    Let(SubSeq(body, 1, dot - 1), LAMBDA int :
    Let(SubSeq(body, dot + 1, Len(body)), LAMBDA frac :
        IF /\ \A k \in DOMAIN int : is_ascii_digit(int[k])
           /\ \A k \in DOMAIN frac : is_ascii_digit(frac[k])
           /\ Len(int) + Len(frac) >= 1
        THEN Let(DigitsValue(int), LAMBDA whole :
             Let(2 * DigitsValue(frac), LAMBDA twice :
             Let(Pow10(Len(frac)), LAMBDA unit :
             Let(IF twice > unit \/ (twice = unit /\ whole % 2 = 1)
                 THEN whole + 1 ELSE whole, LAMBDA nearest :
             Let(Round(nearest), LAMBDA magnitude :
                 [ok |-> TRUE,
                  value |-> IF signed /\ s[1] = Ch("-") THEN 0 - magnitude
                            ELSE magnitude])))))
        ELSE [ok |-> FALSE])))))

(***************************************************************************)
(* Tokens (src/src/dsl/token.rs)                                           *)
(***************************************************************************)
\* the variants without data
Tok(type) == [type |-> type]

\* Date(String), String(String), Identifier(String), Comment(String)
TokStr(type, value) == [type |-> type, value |-> value]

\* Number(f64)
TokNumber(number) == [type |-> "Number", number |-> number]

\* Symbol(String, String)
TokSymbol(namespace, name) == [type |-> "Symbol", namespace |-> namespace, name |-> name]

\* the keyword table of Token::from_keyword
Keywords ==
    {<<Chars(<<"P", "L", "A", "N">>), "Plan">>,
     <<Chars(<<"D", "E", "F", "I", "N", "E">>), "Define">>,
     <<Chars(<<"P", "O", "R", "T", "F", "O", "L", "I", "O">>), "Portfolio">>,
     <<Chars(<<"E", "N", "D">>), "End">>,
     <<Chars(<<"T", "R", "A", "D", "E">>), "Trade">>,
     <<Chars(<<"M", "A", "R", "K">>), "Mark">>,
     <<Chars(<<"S", "C", "H", "E", "D", "U", "L", "E">>), "Schedule">>,
     <<Chars(<<"S", "T", "A", "R", "T">>), "Start">>,
     <<Chars(<<"E", "N", "D", "_", "D", "A", "T", "E">>), "EndDate">>,
     <<Chars(<<"A", "L", "I", "A", "S">>), "Alias">>,
     <<Chars(<<"T", "A", "R", "G", "E", "T">>), "Target">>,
     <<Chars(<<"R", "E", "T", "U", "R", "N">>), "Return">>,
     <<Chars(<<"A", "S", "S", "E", "T", "S">>), "Assets">>,
     <<Chars(<<"I", "N", "T", "O">>), "Into">>,
     <<Chars(<<"V", "A", "L", "U", "E">>), "Value">>,
     <<Chars(<<"N", "O", "T", "E">>), "Note">>,
     <<Chars(<<"D", "A", "I", "L", "Y">>), "Daily">>,
     <<Chars(<<"W", "E", "E", "K", "L", "Y">>), "Weekly">>,
     <<Chars(<<"M", "O", "N", "T", "H", "L", "Y">>), "Monthly">>,
     <<Chars(<<"Q", "U", "A", "R", "T", "E", "R", "L", "Y">>), "Quarterly">>,
     <<Chars(<<"Y", "E", "A", "R", "L", "Y">>), "Yearly">>}

\* from_keyword that compares the word as it is written
from_keyword_exact(word) ==
    LET matches == {kw \in Keywords : kw[1] = word}
    IN  IF matches = {} THEN None
        ELSE Some(Tok((CHOOSE kw \in matches : TRUE)[2]))

\* Option<Token>: the keyword that the word is, ignoring case
from_keyword(word) ==
    LET matches == {kw \in Keywords : kw[1] = to_uppercase(word)}
    IN  IF matches = {} THEN None
        ELSE Some(Tok((CHOOSE kw \in matches : TRUE)[2]))

(***************************************************************************)
(* The lexer (src/src/dsl/lexer.rs)                                        *)
(*                                                                         *)
(* A Lexer is a record lx; position counts the characters consumed, so the *)
(* next character is input[position + 1].  A method that mutates the lexer *)
(* and returns a Result is an operator from lx to a record with the lexer  *)
(* after the call: [ok |-> TRUE, lx, token] or [ok |-> FALSE, lx, error].  *)
(***************************************************************************)
Lexer_new(input) ==
    [input |-> input, position |-> 0, current_line |-> 1, current_column |-> 1]

LexError(text, arg, position) ==
    [message |-> [text |-> text, arg |-> arg], position |-> position]

LexOk(lx, token) == [ok |-> TRUE, lx |-> lx, token |-> token]

LexErr(lx, error) == [ok |-> FALSE, lx |-> lx, error |-> error]

Lexer_is_at_end(lx) == lx.position >= Len(lx.input)

Lexer_peek(lx) == IF Lexer_is_at_end(lx) THEN NUL ELSE lx.input[lx.position + 1]

\* the lexer after advance(); the character advance() returns is Lexer_peek
\* of the lexer before the call
Lexer_advance(lx) ==
    IF Lexer_is_at_end(lx) THEN lx
    ELSE LET ch == lx.input[lx.position + 1]
         IN  [lx EXCEPT !.position = @ + 1,
                        !.current_line = IF ch = Ch("\n") THEN @ + 1 ELSE @,
                        !.current_column = IF ch = Ch("\n") THEN 1 ELSE @ + 1]

\* self.input[start_pos..self.position].iter().collect()
Slice(lx, start_pos) == SubSeq(lx.input, start_pos + 1, lx.position)

RECURSIVE skip_whitespace(_)
skip_whitespace(lx) ==
    IF ~Lexer_is_at_end(lx) /\ Lexer_peek(lx) \in {Ch(" "), Ch("\r"), Ch("\t")}
    THEN Let(Lexer_advance(lx), LAMBDA lx1 : skip_whitespace(lx1))
    ELSE lx

\* while !self.is_at_end() && self.peek().is_ascii_digit() { self.advance(); }
RECURSIVE skip_digits(_)
skip_digits(lx) ==
    IF ~Lexer_is_at_end(lx) /\ is_ascii_digit(Lexer_peek(lx))
    THEN Let(Lexer_advance(lx), LAMBDA lx1 : skip_digits(lx1))
    ELSE lx

\* the loop that reads identifier characters
RECURSIVE skip_identifier_chars(_)
skip_identifier_chars(lx) ==
    IF ~Lexer_is_at_end(lx) /\ is_identifier_char(Lexer_peek(lx))
    THEN Let(Lexer_advance(lx), LAMBDA lx1 : skip_identifier_chars(lx1))
    ELSE lx

\* what an escape sequence adds to the value of a string
escape(ch) ==
    CASE ch = Ch("n") -> <<Ch("\n")>>
      [] ch = Ch("t") -> <<Ch("\t")>>
      [] ch = Ch("r") -> <<Ch("\r")>>
      [] ch = Ch("\\") -> <<Ch("\\")>>
      [] ch = Ch("\"") -> <<Ch("\"")>>
      [] OTHER -> <<Ch("\\"), ch>>

\* scan_string after the opening quote, with the value read so far
RECURSIVE scan_string(_, _)
scan_string(lx, value) ==
    IF ~Lexer_is_at_end(lx) /\ Lexer_peek(lx) # Ch("\"")
    THEN IF Lexer_peek(lx) = Ch("\n")
         THEN LexErr(lx, LexError("Unterminated string", <<>>, lx.position))
         ELSE Let(Lexer_peek(lx), LAMBDA ch :
              Let(Lexer_advance(lx), LAMBDA lx1 :
                  IF ch = Ch("\\")
                  THEN Let(Lexer_advance(lx1), LAMBDA lx2 :
                       Let(value \o escape(Lexer_peek(lx1)), LAMBDA escaped :
                           scan_string(lx2, escaped)))
                  ELSE Let(Append(value, ch), LAMBDA longer :
                           scan_string(lx1, longer))))
    ELSE IF Lexer_is_at_end(lx)
         THEN LexErr(lx, LexError("Unterminated string", <<>>, lx.position))
         ELSE LexOk(Lexer_advance(lx), TokStr("String", value))

RECURSIVE skip_comment(_)
skip_comment(lx) ==
    IF ~Lexer_is_at_end(lx) /\ Lexer_peek(lx) # Ch("\n")
    THEN Let(Lexer_advance(lx), LAMBDA lx1 : skip_comment(lx1))
    ELSE lx

scan_comment(lx) ==
    Let(skip_comment(lx), LAMBDA lx1 :
        LexOk(lx1, TokStr("Comment", Slice(lx1, lx.position))))

\* the loop of scan_number: digits and the first '.'
RECURSIVE skip_number(_, _)
skip_number(lx, has_dot) ==
    IF Lexer_is_at_end(lx) THEN lx
    ELSE IF is_ascii_digit(Lexer_peek(lx))
         THEN Let(Lexer_advance(lx), LAMBDA lx1 : skip_number(lx1, has_dot))
    ELSE IF Lexer_peek(lx) = Ch(".") /\ ~has_dot
         THEN Let(Lexer_advance(lx), LAMBDA lx1 : skip_number(lx1, TRUE))
    ELSE lx

\* no caller in the source: a number with its leading '-'
scan_number(lx) ==
    Let(lx.position, LAMBDA start_pos :
    Let(Lexer_peek(lx) = Ch("-"), LAMBDA is_negative :
    Let(skip_number(IF is_negative THEN Lexer_advance(lx) ELSE lx, FALSE), LAMBDA lx1 :
    Let(Slice(lx1, start_pos), LAMBDA number_str :
    Let(parse_f64(number_str), LAMBDA num :
        IF num.ok
        THEN LexOk(lx1, TokNumber(num.value))
        ELSE LexErr(lx1, LexError("Invalid number: ", number_str, start_pos)))))))

\* read_date that reads the first run of digits and never a date
read_date_never(lx) == [lx |-> skip_digits(lx), date |-> FALSE]

\* the lexer after the attempt to read a date, and whether a date was read
read_date(lx) ==
    Let(lx.position, LAMBDA start_pos :
    Let(skip_digits(lx), LAMBDA lx1 :
        IF Lexer_peek(lx1) = Ch("-") /\ lx1.position - start_pos = 4
        THEN Let(Lexer_advance(lx1), LAMBDA lx2 :
             Let(lx2.position, LAMBDA month_start :
             Let(skip_digits(lx2), LAMBDA lx3 :
                 IF lx3.position - month_start = 2 /\ Lexer_peek(lx3) = Ch("-")
                 THEN Let(Lexer_advance(lx3), LAMBDA lx4 :
                      Let(lx4.position, LAMBDA day_start :
                      Let(skip_digits(lx4), LAMBDA lx5 :
                          [lx |-> lx5, date |-> lx5.position - day_start = 2])))
                 ELSE [lx |-> lx3, date |-> FALSE])))
        ELSE [lx |-> lx1, date |-> FALSE]))

scan_number_or_date(lx) ==
    Let(lx.position, LAMBDA start_pos :
    Let(read_date(lx), LAMBDA read :
        IF read.date
        THEN LexOk(read.lx, TokStr("Date", Slice(read.lx, start_pos)))
        ELSE Let(IF Lexer_peek(read.lx) = Ch(".")
                 THEN skip_digits(Lexer_advance(read.lx))
                 ELSE read.lx, LAMBDA lx6 :
             Let(Slice(lx6, start_pos), LAMBDA number_str :
             Let(parse_f64(number_str), LAMBDA num :
                 IF num.ok
                 THEN LexOk(lx6, TokNumber(num.value))
                 ELSE LexErr(lx6, LexError("Invalid number or date: ", number_str,
                                           start_pos)))))))

\* scan_symbol_or_word with the two parts of a symbol in upper case
scan_symbol_or_word_upper(lx, word) ==
    IF Lexer_peek(lx) = Ch(":")
    THEN Let(Lexer_advance(lx), LAMBDA lx1 :
         Let(lx1.position, LAMBDA symbol_start :
         Let(skip_identifier_chars(lx1), LAMBDA lx2 :
             IF lx2.position > symbol_start
             THEN LexOk(lx2, TokSymbol(to_uppercase(word),
                                       to_uppercase(Slice(lx2, symbol_start))))
             ELSE LexErr(lx2, LexError("Expected identifier after ':'", <<>>,
                                       lx2.position)))))
    ELSE IF from_keyword(word) # None
         THEN LexOk(lx, from_keyword(word)[1])
         ELSE LexOk(lx, TokStr("Identifier", word))

\* the rest of scan_identifier_or_keyword, with the word read and the lexer
\* after the check for a compound keyword: a symbol, a keyword, an identifier
scan_symbol_or_word(lx, word) ==
    IF Lexer_peek(lx) = Ch(":")
    THEN Let(Lexer_advance(lx), LAMBDA lx1 :
         Let(word, LAMBDA namespace :
         Let(lx1.position, LAMBDA symbol_start :
         Let(skip_identifier_chars(lx1), LAMBDA lx2 :
             IF lx2.position > symbol_start
             THEN LexOk(lx2, TokSymbol(namespace, Slice(lx2, symbol_start)))
             ELSE LexErr(lx2, LexError("Expected identifier after ':'", <<>>,
                                       lx2.position))))))
    ELSE IF from_keyword(word) # None
         THEN LexOk(lx, from_keyword(word)[1])
         ELSE LexOk(lx, TokStr("Identifier", word))

scan_identifier_or_keyword(lx) ==
    Let(lx.position, LAMBDA start_pos :
    Let(skip_identifier_chars(lx), LAMBDA lx1 :
    Let(Slice(lx1, start_pos), LAMBDA word :
        IF word = Chars(<<"E", "N", "D">>) /\ Lexer_peek(lx1) = Ch("_")
        THEN Let(skip_identifier_chars(Lexer_advance(lx1)), LAMBDA lx2 :
             Let(Slice(lx2, start_pos), LAMBDA compound_word :
                 IF from_keyword(compound_word) # None
                 THEN LexOk(lx2, from_keyword(compound_word)[1])
                 ELSE scan_symbol_or_word(lx2, word)))
        ELSE scan_symbol_or_word(lx1, word))))

\* self.position -= 1; self.current_column -= 1
back_up(lx) == [lx EXCEPT !.position = @ - 1, !.current_column = @ - 1]

\* the tokens of one character
Punctuation ==
    {<<Ch("\n"), "Newline">>, <<Ch("+"), "Plus">>, <<Ch("-"), "Minus">>,
     <<Ch("@"), "At">>, <<Ch(":"), "Colon">>, <<Ch(","), "Comma">>,
     <<Ch("("), "LeftParen">>, <<Ch(")"), "RightParen">>,
     <<Ch("{"), "LeftBrace">>, <<Ch("}"), "RightBrace">>}

\* the arms of scan_token after the one-character tokens, with the lexer
\* after advance() and the character it returned
scan_token_rest(lx1, ch) ==
    IF ch = Ch("\"") THEN scan_string(lx1, <<>>)
    ELSE IF ch = Ch("#") THEN scan_comment(lx1)
    ELSE IF is_ascii_digit(ch)
         THEN Let(back_up(lx1), LAMBDA lx : scan_number_or_date(lx))
    ELSE IF is_identifier_start(ch)
         THEN Let(back_up(lx1), LAMBDA lx : scan_identifier_or_keyword(lx))
    ELSE LexErr(lx1, LexError("Unexpected character: ", <<ch>>, lx1.position))

\* scan_token that reads a '-' before a digit as the sign of the number
scan_token_signed(lx) ==
    Let(Lexer_peek(lx), LAMBDA ch :
    Let(Lexer_advance(lx), LAMBDA lx1 :
        IF ch = Ch("-") /\ is_ascii_digit(Lexer_peek(lx1))
        THEN scan_number(lx)
        ELSE IF \E p \in Punctuation : p[1] = ch
             THEN LexOk(lx1, Tok((CHOOSE p \in Punctuation : p[1] = ch)[2]))
             ELSE scan_token_rest(lx1, ch)))

\* scan_token that looks at a line break without consuming it
scan_token_newline_kept(lx) ==
    Let(Lexer_peek(lx), LAMBDA ch :
    Let(Lexer_advance(lx), LAMBDA lx1 :
        IF ch = Ch("\n") THEN LexOk(lx, Tok("Newline"))
        ELSE IF \E p \in Punctuation : p[1] = ch
             THEN LexOk(lx1, Tok((CHOOSE p \in Punctuation : p[1] = ch)[2]))
             ELSE scan_token_rest(lx1, ch)))

scan_token(lx) ==
    Let(Lexer_peek(lx), LAMBDA ch :
    Let(Lexer_advance(lx), LAMBDA lx1 :
        IF \E p \in Punctuation : p[1] = ch
        THEN LexOk(lx1, Tok((CHOOSE p \in Punctuation : p[1] = ch)[2]))
        ELSE scan_token_rest(lx1, ch)))

(***************************************************************************)
(* The parser (src/src/dsl/parser.rs)                                      *)
(***************************************************************************)
Parser_new(toks) == [tokens |-> toks, current |-> 0]

\* self.tokens.get(self.current).unwrap_or(&Token::Eof)
Parser_peek(p) ==
    IF p.current < Len(p.tokens) THEN p.tokens[p.current + 1] ELSE Tok("Eof")

Parser_is_at_end(p) == Parser_peek(p).type = "Eof" \/ p.current >= Len(p.tokens)

\* &self.tokens[self.current - 1]
previous(p) == p.tokens[p.current]

\* the parser after advance(); the token advance() returns is previous of
\* the parser after the call
Parser_advance(p) ==
    IF ~Parser_is_at_end(p) THEN [p EXCEPT !.current = @ + 1] ELSE p

\* the token types that check tells from the others
Checked ==
    {"Plan", "Define", "Portfolio", "End", "Trade", "Mark", "Schedule", "Start",
     "EndDate", "Alias", "Target", "Return", "Assets", "Into", "Value", "Note",
     "At", "Comma", "Plus", "Minus"}

check(p, token_type) ==
    IF Parser_is_at_end(p) THEN FALSE
    ELSE Parser_peek(p).type = token_type /\ token_type \in Checked

\* ParseError: the message is a text and the token that format! puts in it
ParseError(text, found, position) ==
    [message |-> [text |-> text, found |-> found], position |-> position]

\* what a parsing method returns: the parser after the call, and Ok(value) or
\* Err(error)
ParseOk(p, value) == [ok |-> TRUE, p |-> p, value |-> value]

ParseErr(p, error) == [ok |-> FALSE, p |-> p, error |-> error]

\* consume that lets an unmet expectation pass
consume_lenient(p, expected, error_message) ==
    IF check(p, expected)
    THEN ParseOk(Parser_advance(p), <<>>)
    ELSE ParseOk(p, <<>>)

consume(p, expected, error_message) ==
    IF check(p, expected)
    THEN ParseOk(Parser_advance(p), <<>>)
    ELSE ParseErr(p, ParseError(error_message, Some(Parser_peek(p)), p.current))

\* match self.advance() { Token::<type>(v) => Ok(v), token => Err(..) }
expect(p, type, text) ==
    Let(Parser_advance(p), LAMBDA p1 :
    Let(previous(p1), LAMBDA token :
        IF token.type = type
        THEN ParseOk(p1, token)
        ELSE ParseErr(p1, ParseError(text, Some(token), p1.current - 1))))

\* the '?' of a parsing method: an Err returns at once, an Ok goes on with
\* the parser and the value it holds
Try(r, F(_)) == Let(r, LAMBDA done : IF done.ok THEN F(done) ELSE done)

parse_symbol(p) ==
    Try(expect(p, "Symbol", "Expected symbol"), LAMBDA r:
        ParseOk(r.p, Symbol_new(r.value.namespace, r.value.name)))

parse_number(p) ==
    Try(expect(p, "Number", "Expected number"), LAMBDA r:
        ParseOk(r.p, r.value.number))

parse_string(p) ==
    Try(expect(p, "String", "Expected string"), LAMBDA r:
        ParseOk(r.p, r.value.value))

parse_identifier(p) ==
    Try(expect(p, "Identifier", "Expected identifier"), LAMBDA r:
        ParseOk(r.p, r.value.value))

parse_date(p) ==
    Try(expect(p, "Date", "Expected date"), LAMBDA r:
        ParseOk(r.p, r.value.value))

\* parse_signed_amount that takes the sign for positive after a '-' too
parse_signed_amount_positive(p) ==
    Let(IF Parser_peek(p).type \in {"Plus", "Minus"} THEN Parser_advance(p) ELSE p,
        LAMBDA p1 :
        Try(parse_number(p1), LAMBDA value:
            ParseOk(value.p, [sign |-> "Positive", value |-> value.value])))

parse_signed_amount(p) ==
    Let(CASE Parser_peek(p).type = "Plus" -> "Positive"
          [] Parser_peek(p).type = "Minus" -> "Negative"
          [] OTHER -> "Positive", LAMBDA sign :
    Let(IF Parser_peek(p).type \in {"Plus", "Minus"} THEN Parser_advance(p) ELSE p,
        LAMBDA p1 :
        Try(parse_number(p1), LAMBDA value:
            ParseOk(value.p, [sign |-> sign, value |-> value.value]))))

parse_optional_note(p) ==
    IF check(p, "Note")
    THEN Try(parse_string(Parser_advance(p)), LAMBDA r: ParseOk(r.p, Some(r.value)))
    ELSE ParseOk(p, None)

\* symbols.push(self.parse_symbol()?) and the loop over ',' after it
RECURSIVE parse_symbol_list(_, _)
parse_symbol_list(p, symbols) ==
    Try(parse_symbol(p), LAMBDA r:
        IF check(r.p, "Comma")
        THEN parse_symbol_list(Parser_advance(r.p), Append(symbols, r.value))
        ELSE ParseOk(r.p, Append(symbols, r.value)))

\* TARGET RETURN number, after TARGET has been consumed
parse_target_return(p) ==
    Try(consume(p, "Return", "Expected RETURN after TARGET"), LAMBDA r:
        parse_number(r.p))

RECURSIVE parse_portfolio_body(_, _, _)
parse_portfolio_body(p, assets, target_return) ==
    IF ~check(p, "End") /\ ~Parser_is_at_end(p) /\ Parser_peek(p).type = "Assets"
    THEN Try(parse_symbol_list(Parser_advance(p), <<>>), LAMBDA r:
             parse_portfolio_body(r.p, r.value, target_return))
    ELSE IF ~check(p, "End") /\ ~Parser_is_at_end(p) /\ Parser_peek(p).type = "Target"
    THEN Try(parse_target_return(Parser_advance(p)), LAMBDA r:
             parse_portfolio_body(r.p, assets, Some(r.value)))
    ELSE ParseOk(p, [assets |-> assets, target_return |-> target_return])

parse_portfolio(p) ==
    Try(consume(p, "Portfolio", "Expected PORTFOLIO"), LAMBDA r1:
    Try(parse_string(r1.p), LAMBDA name:
    Try(parse_portfolio_body(name.p, <<>>, None), LAMBDA body:
    Try(consume(body.p, "End", "Expected END"), LAMBDA r2:
        ParseOk(r2.p, [name |-> name.value,
                       assets |-> body.value.assets,
                       target_return |-> body.value.target_return])))))

RECURSIVE parse_define_body(_, _, _)
parse_define_body(p, alias, target_return) ==
    IF ~check(p, "End") /\ ~Parser_is_at_end(p) /\ Parser_peek(p).type = "Alias"
    THEN Try(parse_string(Parser_advance(p)), LAMBDA r:
             parse_define_body(r.p, Some(r.value), target_return))
    ELSE IF ~check(p, "End") /\ ~Parser_is_at_end(p) /\ Parser_peek(p).type = "Target"
    THEN Try(parse_target_return(Parser_advance(p)), LAMBDA r:
             parse_define_body(r.p, alias, Some(r.value)))
    ELSE ParseOk(p, [alias |-> alias, target_return |-> target_return])

parse_define(p) ==
    Try(consume(p, "Define", "Expected DEFINE"), LAMBDA r1:
    Try(parse_symbol(r1.p), LAMBDA symbol:
    Try(parse_define_body(symbol.p, None, None), LAMBDA body:
    Try(consume(body.p, "End", "Expected END"), LAMBDA r2:
        ParseOk(r2.p, [symbol |-> symbol.value,
                       alias |-> body.value.alias,
                       target_return |-> body.value.target_return])))))

parse_frequency(p) ==
    Let(Parser_advance(p), LAMBDA p1 :
    Let(previous(p1), LAMBDA token :
        IF token.type \in {"Daily", "Weekly", "Monthly", "Quarterly", "Yearly"}
        THEN ParseOk(p1, token.type)
        ELSE ParseErr(p1, ParseError("Expected frequency", Some(token), p1.current - 1))))

parse_schedule(p) ==
    Try(parse_frequency(p), LAMBDA frequency:
    Try(parse_number(frequency.p), LAMBDA amount:
    Try(parse_identifier(amount.p), LAMBDA unit:
    Try(consume(unit.p, "Into", "Expected INTO"), LAMBDA r:
    Try(parse_symbol(r.p), LAMBDA target:
        ParseOk(target.p, [kind |-> "Schedule", frequency |-> frequency.value,
                           amount |-> amount.value, unit |-> unit.value,
                           target |-> target.value]))))))

parse_plan_rule(p) ==
    CASE Parser_peek(p).type = "Schedule" -> parse_schedule(Parser_advance(p))
      [] Parser_peek(p).type = "Start" ->
            Try(parse_date(Parser_advance(p)), LAMBDA date:
                ParseOk(date.p, [kind |-> "StartDate", date |-> date.value]))
      [] Parser_peek(p).type = "EndDate" ->
            Try(parse_date(Parser_advance(p)), LAMBDA date:
                ParseOk(date.p, [kind |-> "EndDate", date |-> date.value]))
      [] OTHER ->
            ParseErr(p, ParseError("Expected SCHEDULE, START, or END_DATE",
                                   Some(Parser_peek(p)), p.current))

RECURSIVE parse_plan_body(_, _)
parse_plan_body(p, rules) ==
    IF ~check(p, "End") /\ ~Parser_is_at_end(p)
    THEN Try(parse_plan_rule(p), LAMBDA rule:
             parse_plan_body(rule.p, Append(rules, rule.value)))
    ELSE ParseOk(p, rules)

parse_plan(p) ==
    Try(consume(p, "Plan", "Expected PLAN"), LAMBDA r1:
    Try(parse_string(r1.p), LAMBDA name:
    Try(parse_plan_body(name.p, <<>>), LAMBDA rules:
    Try(consume(rules.p, "End", "Expected END"), LAMBDA r2:
        ParseOk(r2.p, [name |-> name.value, rules |-> rules.value])))))

parse_mark_details(p) ==
    Try(parse_symbol(p), LAMBDA symbol:
    Try(consume(symbol.p, "Value", "Expected VALUE"), LAMBDA r:
    Try(parse_number(r.p), LAMBDA value:
    Try(parse_identifier(value.p), LAMBDA unit:
        ParseOk(unit.p, [kind |-> "Mark", symbol |-> symbol.value,
                         value |-> value.value, unit |-> unit.value])))))

\* the optional '@' number of a trade
parse_price(p) ==
    IF check(p, "At")
    THEN Try(parse_number(Parser_advance(p)), LAMBDA r: ParseOk(r.p, Some(r.value)))
    ELSE ParseOk(p, None)

parse_trade_details(p) ==
    Try(parse_symbol(p), LAMBDA symbol:
    Try(parse_signed_amount(symbol.p), LAMBDA signed_amount:
    Try(parse_identifier(signed_amount.p), LAMBDA unit:
    Try(parse_price(unit.p), LAMBDA price:
        ParseOk(price.p, [kind |-> "Trade", symbol |-> symbol.value,
                          signed_amount |-> signed_amount.value,
                          unit |-> unit.value, price |-> price.value])))))

parse_details(p, action) ==
    IF action = "Trade" THEN parse_trade_details(p) ELSE parse_mark_details(p)

parse_action(p) ==
    Let(Parser_advance(p), LAMBDA p1 :
    Let(previous(p1), LAMBDA token :
        IF token.type \in {"Trade", "Mark"}
        THEN ParseOk(p1, token.type)
        ELSE ParseErr(p1, ParseError("Expected TRADE or MARK", Some(token),
                                     p1.current - 1))))

parse_record(p) ==
    Let(Parser_advance(p), LAMBDA p1 :
    Let(previous(p1), LAMBDA token :
        IF token.type # "Date"
        THEN ParseErr(p1, ParseError("Expected date", None, p1.current - 1))
        ELSE Try(parse_action(p1), LAMBDA action:
             Try(parse_details(action.p, action.value), LAMBDA details:
             Try(parse_optional_note(details.p), LAMBDA note:
                 ParseOk(note.p, [date |-> token.value, action |-> action.value,
                                  details |-> details.value,
                                  note |-> note.value]))))))

\* while matches!(self.peek(), Token::Comment(_)) { self.advance(); }
RECURSIVE skip_comments(_)
skip_comments(p) ==
    IF Parser_peek(p).type = "Comment"
    THEN Let(Parser_advance(p), LAMBDA p1 : skip_comments(p1))
    ELSE p

\* the result of a parsing method made a Statement of the kind
AsStatement(r, kind, field) ==
    Try(r, LAMBDA done : ParseOk(done.p, [kind |-> kind] @@ (field :> done.value)))

parse_statement(p) ==
    Let(skip_comments(p), LAMBDA p1 :
    Let(Parser_peek(p1).type, LAMBDA type :
        CASE type = "Date" -> AsStatement(parse_record(p1), "Record", "record")
          [] type = "Plan" -> AsStatement(parse_plan(p1), "Plan", "plan")
          [] type = "Define" -> AsStatement(parse_define(p1), "Define", "define")
          [] type = "Portfolio" ->
                AsStatement(parse_portfolio(p1), "Portfolio", "portfolio")
          [] type = "Eof" ->
                ParseErr(p1, ParseError("Unexpected end of input", None, p1.current))
          [] OTHER ->
                ParseErr(p1, ParseError("Expected statement", Some(Parser_peek(p1)),
                                        p1.current))))

\* skip_comments_and_whitespace that skips nothing
skip_no_comments(p) == p

RECURSIVE skip_comments_and_whitespace(_)
skip_comments_and_whitespace(p) ==
    IF ~Parser_is_at_end(p) /\ Parser_peek(p).type \in {"Comment", "Newline"}
    THEN Let(Parser_advance(p), LAMBDA p1 : skip_comments_and_whitespace(p1))
    ELSE p

(***************************************************************************)
(* The state machine                                                       *)
(***************************************************************************)
\* Result<AnalysisReport, EngineError>, and no result yet
NoResult == [status |-> "None"]

Ok(report) == [status |-> "Ok", report |-> report]

Err == [status |-> "Err"]

\* no call of tokenize, of parse, of evaluate
LexerIdle == lexer = Lexer_new(<<>>) /\ tokens = <<>> /\ lexed = NoResult

ParserIdle == parser = Parser_new(<<>>) /\ statements = <<>> /\ parsed = NoResult

EngineIdle ==
    /\ program = <<>> /\ i = 1 /\ record_statements = <<>>
    /\ state = Engine_new /\ result = NoResult
    /\ run = 1 /\ first = NoResult

\* a fresh Engine on which evaluate(p) has just been called
InitWith(programs) ==
    /\ pc = "statements"
    /\ run = 1
    /\ first = NoResult
    /\ program \in programs
    /\ i = 1
    /\ record_statements = <<>>
    /\ state = Engine_new
    /\ result = NoResult
    /\ LexerIdle
    /\ ParserIdle

Init == InitWith(SeqsUpTo(RecordStatements, MaxStmts))

InitDefine == InitWith(SeqsUpTo(DefineStatements, MaxStmts))

InitTwo == InitWith(SeqsUpTo(PlanStatements, MaxStmts))

\* what a `?` does with the callee's Result
Propagate(r) ==
    IF r.ok
    THEN /\ state' = r.st
         /\ i' = i + 1
         /\ UNCHANGED <<pc, result>>
    ELSE /\ pc' = "done"
         /\ result' = Err
         /\ UNCHANGED <<state, i>>

\* where evaluate stands: at statement i of the first loop, which is of the
\* given kind; past that loop; at record i of the replay; past the replay
AtStatement(kind) == pc = "statements" /\ i <= Len(program) /\ program[i].kind = kind

StatementsDone == pc = "statements" /\ i > Len(program)

AtRecord == pc = "records" /\ i <= Len(record_statements)

RecordsDone == pc = "records" /\ i > Len(record_statements)

\* a Record applied where it stands, in the first loop
StatementRecord_at_once ==
    /\ AtStatement("Record")
    /\ Propagate(evaluate_record(state, program[i].record))
    /\ UNCHANGED <<program, record_statements, run, first>>
    /\ UNCHANGED <<lexer_vars, parser_vars>>

\* for statement in program.statements.iter(): Statement::Record
StatementRecord ==
    /\ AtStatement("Record")
    /\ record_statements' = Append(record_statements, program[i].record)
    /\ i' = i + 1
    /\ UNCHANGED <<program, pc, state, result, run, first>>
    /\ UNCHANGED <<lexer_vars, parser_vars>>

\* Statement::Plan(_) => {}
StatementPlan ==
    /\ AtStatement("Plan")
    /\ state' = statement_plan(state, program[i].plan)
    /\ i' = i + 1
    /\ UNCHANGED <<program, pc, record_statements, result, run, first>>
    /\ UNCHANGED <<lexer_vars, parser_vars>>

\* Statement::Define(define) => self.evaluate_define(&define)?
StatementDefine ==
    /\ AtStatement("Define")
    /\ Propagate(evaluate_define(state, program[i].define))
    /\ UNCHANGED <<program, record_statements, run, first>>
    /\ UNCHANGED <<lexer_vars, parser_vars>>

\* Statement::Portfolio(statement) => self.evaluate_portfolio(statement)?
StatementPortfolio ==
    /\ AtStatement("Portfolio")
    /\ Propagate(evaluate_portfolio(state, program[i].portfolio))
    /\ UNCHANGED <<program, record_statements, run, first>>
    /\ UNCHANGED <<lexer_vars, parser_vars>>

\* record_statements.sort_by(|a, b| a.date.cmp(&b.date))
SortRecords ==
    /\ StatementsDone
    /\ record_statements' = sort_by_date(record_statements)
    /\ pc' = "records"
    /\ i' = 1
    /\ UNCHANGED <<program, state, result, run, first>>
    /\ UNCHANGED <<lexer_vars, parser_vars>>

\* try_for_each(|rec| self.evaluate_record(rec).map(|_| ()))?
EvaluateRecord ==
    /\ AtRecord
    /\ Propagate(evaluate_record(state, record_statements[i]))
    /\ UNCHANGED <<program, record_statements, run, first>>
    /\ UNCHANGED <<lexer_vars, parser_vars>>

\* the rest of evaluate: the assets, the aggregation, the portfolios, Ok(result)
BuildReport ==
    /\ RecordsDone
    /\ \E asset_list \in assets_values(state.assets) :
           result' = Ok(build_report(state, asset_list))
    /\ pc' = "done"
    /\ UNCHANGED <<program, i, record_statements, state, run, first>>
    /\ UNCHANGED <<lexer_vars, parser_vars>>

Next ==
    \/ StatementRecord
    \/ StatementPlan
    \/ StatementDefine
    \/ StatementPortfolio
    \/ SortRecords
    \/ EvaluateRecord
    \/ BuildReport

IsNotPlan(stmt) == stmt.kind # "Plan"

\* Engine::new().evaluate(p) once more, after the first evaluation has returned:
\* with the same program
EvaluateOnNewEngine ==
    /\ pc = "done" /\ run = 1 /\ result.status = "Ok"
    /\ first' = [status |-> "Ok", report |-> result.report, program |-> program,
                 second |-> "same program"]
    /\ state' = Engine_new
    /\ program' = program
    /\ run' = 2
    /\ pc' = "statements"
    /\ i' = 1
    /\ record_statements' = <<>>
    /\ result' = NoResult
    /\ UNCHANGED <<lexer_vars, parser_vars>>

\* with the program less its Plan statements
EvaluateWithoutPlans ==
    /\ pc = "done" /\ run = 1 /\ result.status = "Ok"
    /\ first' = [status |-> "Ok", report |-> result.report, program |-> program,
                 second |-> "plans removed"]
    /\ state' = Engine_new
    /\ program' = SelectSeq(program, IsNotPlan)
    /\ run' = 2
    /\ pc' = "statements"
    /\ i' = 1
    /\ record_statements' = <<>>
    /\ result' = NoResult
    /\ UNCHANGED <<lexer_vars, parser_vars>>

\* evaluate(p) once more on the same Engine, after the first evaluation has
\* returned: self.state is what the first call left
EvaluateOnSameEngine ==
    /\ pc = "done" /\ run = 1 /\ result.status = "Ok"
    /\ first' = [status |-> "Ok", report |-> result.report, program |-> program,
                 second |-> "same engine"]
    /\ state' = state
    /\ program' = program
    /\ run' = 2
    /\ pc' = "statements"
    /\ i' = 1
    /\ record_statements' = <<>>
    /\ result' = NoResult
    /\ UNCHANGED <<lexer_vars, parser_vars>>

NextTwo ==
    \/ Next
    \/ EvaluateOnNewEngine
    \/ EvaluateWithoutPlans
    \/ EvaluateOnSameEngine

Spec == Init /\ [][Next]_vars

SpecTwo == InitTwo /\ [][NextTwo]_vars

SpecDefine == InitDefine /\ [][Next]_vars

(***************************************************************************)
(* Lexer::tokenize as a state machine                                      *)
(***************************************************************************)
\* the texts tokenized: up to MaxPieces pieces of one family, concatenated
RECURSIVE Flatten(_)
Flatten(ss) == IF ss = <<>> THEN <<>> ELSE Head(ss) \o Flatten(Tail(ss))

\* digits, dates and numbers
NumberPieces ==
    {Chars(<<"2", "0", "2", "4">>), Chars(<<"-", "9", "9">>), Chars(<<"-", "5">>),
     Chars(<<"-">>), Chars(<<"5">>), Chars(<<".">>), Chars(<<" ">>)}

\* words, keywords and symbols
WordPieces ==
    {Chars(<<"E", "N", "D">>), Chars(<<"_">>), Chars(<<"D", "a", "t", "e">>),
     Chars(<<":">>), Chars(<<"x">>), Chars(<<"5">>), Chars(<<" ">>)}

\* strings, comments and lines
StringPieces ==
    {Chars(<<"\"">>), Chars(<<"\\">>), Chars(<<"\n">>), Chars(<<"n">>),
     Chars(<<"#">>), Chars(<<"+">>)}

\* no more than MaxDigits digits in a row
ShortDigitRuns(text) ==
    \A k \in 1..(Len(text) - MaxDigits) :
        \E j \in k..(k + MaxDigits) : ~is_ascii_digit(text[j])

LexInputs ==
    {text \in UNION {{Flatten(ps) : ps \in SeqsUpTo(pieces, MaxPieces)} :
                       pieces \in {NumberPieces, WordPieces, StringPieces}} :
        ShortDigitRuns(text)}

\* Result<Vec<Token>, LexError>
LexedOk(toks) == [status |-> "Ok", tokens |-> toks]

LexedErr(error) == [status |-> "Err", error |-> error]

\* Lexer::new(input), and tokenize() has just been called on it
InitLexer ==
    /\ pc = "tokenize"
    /\ lexer \in {Lexer_new(input) : input \in LexInputs}
    /\ tokens = <<>>
    /\ lexed = NoResult
    /\ EngineIdle
    /\ ParserIdle

\* where the next token starts, if the loop of tokenize goes on
TokenStart == skip_whitespace(lexer)

StartsToken == pc = "tokenize" /\ ~Lexer_is_at_end(TokenStart)

InputDone == pc = "tokenize" /\ Lexer_is_at_end(TokenStart)

\* one turn of the loop of tokenize: skip_whitespace, scan_token()?, push
ScanToken ==
    /\ StartsToken
    /\ \E r \in {scan_token(TokenStart)} :
           /\ lexer' = r.lx
           /\ IF r.ok
              THEN /\ tokens' = IF r.token.type = "Newline" THEN tokens
                                ELSE Append(tokens, r.token)
                   /\ UNCHANGED <<pc, lexed>>
              ELSE /\ pc' = "tokenized"
                   /\ lexed' = LexedErr(r.error)
                   /\ UNCHANGED tokens
    /\ UNCHANGED engine_vars
    /\ UNCHANGED parser_vars

\* the loop ends: tokens.push(Token::Eof); Ok(tokens)
TokenizeEof ==
    /\ InputDone
    /\ lexer' = TokenStart
    /\ tokens' = Append(tokens, Tok("Eof"))
    /\ lexed' = LexedOk(tokens')
    /\ pc' = "tokenized"
    /\ UNCHANGED engine_vars
    /\ UNCHANGED parser_vars

NextLexer ==
    \/ ScanToken
    \/ TokenizeEof

SpecLexer == InitLexer /\ [][NextLexer]_vars

(***************************************************************************)
(* Parser::parse as a state machine                                        *)
(***************************************************************************)
\* the tokens of the statements parsed, as the lexer makes them
TDate == TokStr("Date", Date9)

TString == TokStr("String", Chars(<<"a">>))

TUnit == TokStr("Identifier", Chars(<<"C", "N", "Y">>))

TComment == TokStr("Comment", Chars(<<"c">>))

TSymbol(sym) == TokSymbol(sym.namespace, sym.name)

\* a sell with a price and a note
TradeTokens ==
    <<TDate, Tok("Trade"), TSymbol(SymAX), Tok("Minus"), TokNumber(5), TUnit,
      Tok("At"), TokNumber(2), Tok("Note"), TString>>

\* the complete statements that the token lists are made of: a trade with a
\* '-', with and without price and note, with a '+' and with no sign; a mark;
\* a plan with two rules; a define and a portfolio with both fields
StatementTokens ==
    {TradeTokens,
     SubSeq(TradeTokens, 1, 8),
     SubSeq(TradeTokens, 1, 6),
     <<TDate, Tok("Trade"), TSymbol(SymBY), Tok("Plus"), TokNumber(2), TUnit>>,
     <<TDate, Tok("Trade"), TSymbol(SymBY), TokNumber(2), TUnit>>,
     <<TDate, Tok("Mark"), TSymbol(SymAX), Tok("Value"), TokNumber(5), TUnit>>,
     <<Tok("Plan"), TString, Tok("Schedule"), Tok("Monthly"), TokNumber(2), TUnit,
       Tok("Into"), TSymbol(SymCZ), Tok("Start"), TDate, Tok("End")>>,
     <<Tok("Define"), TSymbol(SymAX), Tok("Alias"), TString, Tok("Target"),
       Tok("Return"), TokNumber(7), Tok("End")>>,
     <<Tok("Portfolio"), TString, Tok("Assets"), TSymbol(SymAX), Tok("Comma"),
       TSymbol(SymBY), Tok("Target"), Tok("Return"), TokNumber(9), Tok("End")>>}

\* the token lists of up to MaxParsed statements
WholeLists == {Flatten(ss) : ss \in SeqsUpTo(StatementTokens, MaxParsed)}

\* a token list cut off after its k-th token
CutLists == UNION {{SubSeq(toks, 1, k) : k \in 0..Len(toks)} : toks \in WholeLists}

\* a token list with a Comment token after its k-th token
InsertComment(toks, k) ==
    SubSeq(toks, 1, k) \o <<TComment>> \o SubSeq(toks, k + 1, Len(toks))

CommentLists ==
    UNION {{InsertComment(toks, k) : k \in 0..Len(toks)} : toks \in WholeLists}

\* what tokenize returns ends with Eof
ParserInputs == {toks \o <<Tok("Eof")>> : toks \in CutLists \cup CommentLists}

\* Result<Program, ParseError>
ParsedOk(stmts) == [status |-> "Ok", program |-> stmts]

ParsedErr(error) == [status |-> "Err", error |-> error]

\* Parser::new(tokens), and parse() has just been called on it
InitParser ==
    /\ pc = "parse"
    /\ parser \in {Parser_new(toks) : toks \in ParserInputs}
    /\ statements = <<>>
    /\ parsed = NoResult
    /\ EngineIdle
    /\ LexerIdle

\* where the next statement starts, if the loop of parse goes on
StatementStart == skip_comments_and_whitespace(parser)

StartsStatement == pc = "parse" /\ ~Parser_is_at_end(StatementStart)

TokensDone == pc = "parse" /\ Parser_is_at_end(StatementStart)

\* one turn of the loop of parse: skip the comments, parse_statement,
\* add_statement or return Err(e)
ParseStatement ==
    /\ StartsStatement
    /\ \E r \in {parse_statement(StatementStart)} :
           /\ parser' = r.p
           /\ IF r.ok
              THEN /\ statements' = Append(statements, r.value)
                   /\ UNCHANGED <<pc, parsed>>
              ELSE /\ pc' = "parsed"
                   /\ parsed' = ParsedErr(r.error)
                   /\ UNCHANGED statements
    /\ UNCHANGED engine_vars
    /\ UNCHANGED lexer_vars

\* the loop ends: Ok(program)
ParseEnd ==
    /\ TokensDone
    /\ parser' = StatementStart
    /\ parsed' = ParsedOk(statements)
    /\ pc' = "parsed"
    /\ UNCHANGED statements
    /\ UNCHANGED engine_vars
    /\ UNCHANGED lexer_vars

NextParser ==
    \/ ParseStatement
    \/ ParseEnd

SpecParser == InitParser /\ [][NextParser]_vars

(***************************************************************************)
(* A call of tokenize or of parse that runs to its return                  *)
(***************************************************************************)
InitDsl == InitLexer \/ InitParser

NextDsl ==
    \/ NextLexer
    \/ NextParser

\* both are plain loops on one thread: a turn that can be taken is taken
SpecDslFair == InitDsl /\ [][NextDsl]_vars /\ WF_vars(NextDsl)

(***************************************************************************)
(* What the claims read off a program and a report                         *)
(***************************************************************************)
Finished == pc = "done" /\ result.status = "Ok"

IsRecord(stmt) == stmt.kind = "Record"

\* the records of a program, in the order written
ProgramRecords(prog) ==
    LET recs == SelectSeq(prog, IsRecord)
    IN  [k \in DOMAIN recs |-> recs[k].record]

RecordSymbol(rec) == to_string(rec.details.symbol)

RecordsOf(recs, s) ==
    LET Test(r) == RecordSymbol(r) = s
    IN  SelectSeq(recs, Test)

RecordsOn(recs, d) ==
    LET Test(r) == r.date = d
    IN  SelectSeq(recs, Test)

OutputsOf(outputs, s) ==
    LET Test(o) == RecordSymbol(o.program) = s
    IN  SelectSeq(outputs, Test)

\* a before b in the lexicographic order of byte strings
RECURSIVE LexLess(_, _)
LexLess(a, b) ==
    IF b = <<>> THEN FALSE
    ELSE IF a = <<>> THEN TRUE
    ELSE IF Head(a) # Head(b) THEN Head(a) < Head(b)
    ELSE LexLess(Tail(a), Tail(b))

\* how many of the statements prog[1..n] are Portfolio statements
RECURSIVE PortfoliosUpTo(_, _)
PortfoliosUpTo(prog, n) ==
    IF n = 0 THEN 0
    ELSE PortfoliosUpTo(prog, n - 1) + (IF prog[n].kind = "Portfolio" THEN 1 ELSE 0)

IsDefineOf(stmt, sym) == stmt.kind = "Define" /\ stmt.define.symbol = sym

(***************************************************************************)
(* C1: a Define written after a Portfolio that lists its symbol shows in   *)
(* the portfolio of the report: the portfolio's Asset copy for the symbol  *)
(* carries each field (alias, target return) that the Define supplies,     *)
(* unless a still later Define of the symbol supplies that field again.    *)
(* The claim includes the case where the symbol was not in the registry    *)
(* when the Portfolio statement was applied.                               *)
(***************************************************************************)
C1_DefineAfterPortfolioShows ==
    Finished =>
        \A p \in DOMAIN program : \A d \in DOMAIN program :
            (program[p].kind = "Portfolio" /\ p < d /\ program[d].kind = "Define")
            => \A k \in DOMAIN program[p].portfolio.assets :
                 LET sym == program[p].portfolio.assets[k]
                     copy == result.report.portfolios[PortfoliosUpTo(program, p)].assets[k]
                     def == program[d].define
                 IN  def.symbol = sym =>
                       /\ (def.alias # None
                           /\ \A e \in DOMAIN program :
                                (e > d /\ IsDefineOf(program[e], sym))
                                => program[e].define.alias = None)
                          => copy.alias = def.alias
                       /\ (def.target_return # None
                           /\ \A e \in DOMAIN program :
                                (e > d /\ IsDefineOf(program[e], sym))
                                => program[e].define.target_return = None)
                          => copy.target_return = def.target_return

(***************************************************************************)
(* C2: in the report of a fresh Engine, the DailySnapshots of every symbol *)
(* are in strictly ascending lexicographic order of their dates, and their *)
(* dates are exactly the dates of that symbol's records in the program;    *)
(* the symbols with snapshots are exactly the symbols with records.        *)
(***************************************************************************)
C2_DailySnapshotsAscending ==
    Finished =>
        LET recs == ProgramRecords(program)
            daily == result.report.daily_snapshot
        IN  /\ DOMAIN daily = {RecordSymbol(recs[k]) : k \in DOMAIN recs}
            /\ \A s \in DOMAIN daily :
                 /\ \A a, b \in DOMAIN daily[s] :
                      a < b => LexLess(daily[s][a].date, daily[s][b].date)
                 /\ {daily[s][a].date : a \in DOMAIN daily[s]}
                      = {r.date : r \in Range(RecordsOf(recs, s))}

\* a symbol whose records were written out of date order, one date twice
C2_Witness ==
    /\ Finished
    /\ \E s \in DOMAIN result.report.daily_snapshot :
         LET mine == RecordsOf(ProgramRecords(program), s)
         IN  /\ Len(result.report.daily_snapshot[s]) = 2
             /\ Len(mine) = 3
             /\ LexLess(mine[2].date, mine[1].date)
             /\ mine[3].date = mine[1].date

(***************************************************************************)
(* C3: records of one date are applied in the order written: the records   *)
(* replayed for a date are the program's records of that date in program   *)
(* order, the snapshots inside a DailySnapshot are that symbol's records   *)
(* of that date in program order, and each snapshot after the first of a   *)
(* day is computed from the one before it.                                 *)
(***************************************************************************)
C3_SameDayOrderKept ==
    Finished =>
        LET recs == ProgramRecords(program)
            replayed == [k \in DOMAIN state.record_outputs |-> state.record_outputs[k].program]
            daily == result.report.daily_snapshot
        IN  /\ \A d \in {recs[k].date : k \in DOMAIN recs} :
                 RecordsOn(replayed, d) = RecordsOn(recs, d)
            /\ \A s \in DOMAIN daily : \A a \in DOMAIN daily[s] :
                 LET snaps == daily[s][a].snapshots
                 IN  /\ [k \in DOMAIN snaps |-> snaps[k].statement]
                          = RecordsOn(RecordsOf(recs, s), daily[s][a].date)
                     /\ \A k \in DOMAIN snaps :
                          k > 1 =>
                            LET det == snaps[k].statement.details
                            IN  IF det.kind = "Trade"
                                THEN snaps[k].value
                                       = FAdd(snaps[k - 1].value,
                                              SignedAmount_to_f64(det.signed_amount))
                                ELSE /\ snaps[k].total_purchase = snaps[k - 1].total_purchase
                                     /\ snaps[k].total_sale = snaps[k - 1].total_sale

\* two different records of one symbol and date, written after a record of a
\* later date, so that the sort has to move them
C3_Witness ==
    /\ Finished
    /\ \E s \in DOMAIN result.report.daily_snapshot :
         LET mine == RecordsOf(ProgramRecords(program), s)
         IN  /\ Len(mine) = 3
             /\ LexLess(mine[2].date, mine[1].date)
             /\ mine[3].date = mine[2].date
             /\ mine[3] # mine[2]
             /\ Len(result.report.daily_snapshot[s][1].snapshots) = 2

(***************************************************************************)
(* Sums of f64 values, as a loop accumulates them and exactly              *)
(***************************************************************************)
RECURSIVE FSum(_)
FSum(vals) ==
    IF vals = <<>> THEN 0 ELSE FAdd(FSum(SubSeq(vals, 1, Len(vals) - 1)), vals[Len(vals)])

RECURSIVE ExactSum(_)
ExactSum(vals) ==
    IF vals = <<>> THEN 0 ELSE ExactSum(SubSeq(vals, 1, Len(vals) - 1)) + vals[Len(vals)]

IsBuy(rec) == rec.details.kind = "Trade" /\ rec.details.signed_amount.sign = "Positive"

IsSell(rec) == rec.details.kind = "Trade" /\ rec.details.signed_amount.sign = "Negative"

SignedAmounts(recs) ==
    [k \in DOMAIN recs |->
        IF IsBuy(recs[k]) THEN recs[k].details.signed_amount.value
        ELSE 0 - recs[k].details.signed_amount.value]

Magnitudes(recs) == [k \in DOMAIN recs |-> recs[k].details.signed_amount.value]

\* the symbols all of whose records in the program are trades
TradeOnlySymbols ==
    LET recs == ProgramRecords(program)
    IN  {s \in {RecordSymbol(recs[k]) : k \in DOMAIN recs} :
           \A r \in Range(RecordsOf(recs, s)) : r.details.kind = "Trade"}

\* the records of s applied so far, in replay order
Applied(s) ==
    LET outs == OutputsOf(state.record_outputs, s)
    IN  [k \in DOMAIN outs |-> outs[k].program]

(***************************************************************************)
(* C4, as claimed: for a symbol with only Trade records, after its k-th    *)
(* record value is the sum of the first k signed amounts, total_purchase   *)
(* the sum of the buys' magnitudes, total_sale the sum of the sells'       *)
(* magnitudes (each accumulated in f64), and profit is 0.                  *)
(***************************************************************************)
C4_TradesProfitZero ==
    \A s \in TradeOnlySymbols :
        LET outs == OutputsOf(state.record_outputs, s)
        IN  \A k \in DOMAIN outs :
              LET recs == SubSeq(Applied(s), 1, k)
              IN  /\ outs[k].value = FSum(SignedAmounts(recs))
                  /\ outs[k].total_purchase = FSum(Magnitudes(SelectSeq(recs, IsBuy)))
                  /\ outs[k].total_sale = FSum(Magnitudes(SelectSeq(recs, IsSell)))
                  /\ outs[k].profit = 0

(***************************************************************************)
(* C4, amended: for a symbol with only Trade records, after its k-th       *)
(* record value, total_purchase and total_sale are those three sums as     *)
(* accumulated in f64 (every addition rounded to nearest), profit is       *)
(* value - total_purchase + total_sale evaluated in f64, and profit is 0   *)
(* whenever the three stored sums are exact (no addition rounded).         *)
(***************************************************************************)
C4_TradesAccumulate ==
    \A s \in TradeOnlySymbols :
        LET outs == OutputsOf(state.record_outputs, s)
        IN  \A k \in DOMAIN outs :
              LET recs == SubSeq(Applied(s), 1, k)
                  buys == Magnitudes(SelectSeq(recs, IsBuy))
                  sells == Magnitudes(SelectSeq(recs, IsSell))
              IN  /\ outs[k].value = FSum(SignedAmounts(recs))
                  /\ outs[k].total_purchase = FSum(buys)
                  /\ outs[k].total_sale = FSum(sells)
                  /\ outs[k].profit
                       = FAdd(FSub(outs[k].value, outs[k].total_purchase), outs[k].total_sale)
                  /\ (/\ outs[k].value = ExactSum(SignedAmounts(recs))
                      /\ outs[k].total_purchase = ExactSum(buys)
                      /\ outs[k].total_sale = ExactSum(sells))
                     => outs[k].profit = 0

\* three trades of one symbol applied, buys and a sell among them, no rounding
C4_Witness ==
    \E s \in TradeOnlySymbols :
        LET outs == OutputsOf(state.record_outputs, s)
        IN  /\ Len(outs) = 3
            /\ outs[3].total_purchase > 0
            /\ outs[3].total_sale > 0
            /\ outs[3].value = ExactSum(SignedAmounts(Applied(s)))
            /\ outs[3].profit = 0

(***************************************************************************)
(* C5: the output of a Mark record has the mark's value as its value and   *)
(* the total_purchase and total_sale of the symbol's previous output; a    *)
(* Mark that is the symbol's first record has both totals 0.               *)
(***************************************************************************)
C5_MarkOverwritesValue ==
    \A s \in DOMAIN state.snapshots :
        LET outs == OutputsOf(state.record_outputs, s)
        IN  \A k \in DOMAIN outs :
              outs[k].program.details.kind = "Mark" =>
                /\ outs[k].value = outs[k].program.details.value
                /\ outs[k].total_purchase = (IF k = 1 THEN 0 ELSE outs[k - 1].total_purchase)
                /\ outs[k].total_sale = (IF k = 1 THEN 0 ELSE outs[k - 1].total_sale)

\* a mark after a buy and a sell, on a value that differs from the mark's
C5_Witness ==
    \E s \in DOMAIN state.snapshots :
        LET outs == OutputsOf(state.record_outputs, s)
        IN  /\ Len(outs) = 3
            /\ outs[3].program.details.kind = "Mark"
            /\ outs[2].value # outs[3].value
            /\ outs[3].total_purchase > 0
            /\ outs[3].total_sale > 0

(***************************************************************************)
(* C6: every per-record snapshot of the report, and every RecordOutput of  *)
(* the engine, has profit = value - total_purchase + total_sale, evaluated *)
(* in f64 left to right on the values stored in that same snapshot.        *)
(***************************************************************************)
C6_ProfitDerived ==
    /\ \A k \in DOMAIN state.record_outputs :
         LET o == state.record_outputs[k]
         IN  o.profit = FAdd(FSub(o.value, o.total_purchase), o.total_sale)
    /\ Finished =>
         \A s \in DOMAIN result.report.daily_snapshot :
           \A a \in DOMAIN result.report.daily_snapshot[s] :
             \A k \in DOMAIN result.report.daily_snapshot[s][a].snapshots :
               LET o == result.report.daily_snapshot[s][a].snapshots[k]
               IN  o.profit = FAdd(FSub(o.value, o.total_purchase), o.total_sale)

\* a report with a snapshot taken after a buy, a sell and a mark: all three
\* terms are non-zero and so is the profit
C6_Witness ==
    /\ Finished
    /\ \E s \in DOMAIN result.report.daily_snapshot :
         \E a \in DOMAIN result.report.daily_snapshot[s] :
           \E k \in DOMAIN result.report.daily_snapshot[s][a].snapshots :
             LET o == result.report.daily_snapshot[s][a].snapshots[k]
             IN  /\ o.statement.details.kind = "Mark"
                 /\ o.total_purchase > 0
                 /\ o.total_sale > 0
                 /\ o.profit # 0

(***************************************************************************)
(* C7: the same program evaluated on two fresh Engines gives reports with  *)
(* the same set of assets, the same portfolio list and, for every symbol,  *)
(* the same list of DailySnapshots.                                        *)
(***************************************************************************)
AssetSet(report) == Range(report.assets)

SameContents(r1, r2) ==
    /\ AssetSet(r1) = AssetSet(r2)
    /\ Len(r1.assets) = Len(r2.assets)
    /\ r1.portfolios = r2.portfolios
    /\ r1.daily_snapshot = r2.daily_snapshot

SecondFinished(how) == Finished /\ run = 2 /\ first.second = how

C7_SameProgramSameReport ==
    SecondFinished("same program") => SameContents(first.report, result.report)

\* two evaluations of a program with two assets, a portfolio and snapshots,
\* whose reports list the assets in different orders
C7_Witness ==
    /\ SecondFinished("same program")
    /\ first.report.assets # result.report.assets
    /\ result.report.portfolios # <<>>
    /\ result.report.daily_snapshot # EmptyMap

(***************************************************************************)
(* C8: evaluate returns Ok(report) for every program: no step of it ends   *)
(* in an EngineError, what it returns is a report, and short of the return *)
(* evaluate always stands at a step it can take.                           *)
(***************************************************************************)
C8_EvaluateNeverFails ==
    /\ result.status # "Err"
    /\ pc = "done" => result.status = "Ok"
    /\ pc # "done" =>
         \/ \E kind \in {"Record", "Plan", "Define", "Portfolio"} : AtStatement(kind)
         \/ StatementsDone
         \/ AtRecord
         \/ RecordsDone

\* a report for a program with a portfolio of undefined symbols, a sell that
\* takes the value below zero and a mark on a symbol with no earlier record
C8_Witness ==
    /\ Finished
    /\ Len(program) = 3
    /\ program[1].kind = "Portfolio"
    /\ \E k \in DOMAIN state.record_outputs : state.record_outputs[k].value < 0
    /\ \E s \in DOMAIN state.snapshots :
         OutputsOf(state.record_outputs, s)[1].program.details.kind = "Mark"

(***************************************************************************)
(* C9: the report of a program and the report of the program less its Plan *)
(* statements have the same contents, and a symbol that occurs only as the *)
(* target of a Plan schedule is in neither the assets nor the daily        *)
(* snapshots of the report.                                                *)
(***************************************************************************)
PlanTargets(prog) ==
    UNION {{to_string(prog[p].plan.rules[k].target) :
              k \in {j \in DOMAIN prog[p].plan.rules : prog[p].plan.rules[j].kind = "Schedule"}} :
           p \in {q \in DOMAIN prog : prog[q].kind = "Plan"}}

DefinedSymbols(prog) ==
    {to_string(prog[p].define.symbol) : p \in {q \in DOMAIN prog : prog[q].kind = "Define"}}

RecordedSymbols(prog) ==
    {RecordSymbol(prog[p].record) : p \in {q \in DOMAIN prog : prog[q].kind = "Record"}}

C9_PlansHaveNoEffect ==
    /\ SecondFinished("plans removed") => SameContents(first.report, result.report)
    /\ Finished =>
         \A s \in PlanTargets(program) \ (DefinedSymbols(program) \cup RecordedSymbols(program)) :
           /\ s \notin {a.symbol : a \in AssetSet(result.report)}
           /\ s \notin DOMAIN result.report.daily_snapshot

\* a program with a plan whose target occurs nowhere else, evaluated with and
\* without its plans, the report holding an asset and a snapshot
C9_Witness ==
    /\ SecondFinished("plans removed")
    /\ Len(program) < Len(first.program)
    /\ PlanTargets(first.program)
         \ (DefinedSymbols(first.program) \cup RecordedSymbols(first.program)) # {}
    /\ result.report.assets # <<>>
    /\ result.report.daily_snapshot # EmptyMap

(***************************************************************************)
(* C10: after the Define statements applied so far, the registry's Asset   *)
(* of every defined symbol has, in each field (alias, target return), the  *)
(* value of the last Define of the symbol that supplied the field, and     *)
(* None if no Define of it did; the report's assets hold the same.         *)
(***************************************************************************)
\* the statements of the program that evaluate has gone through
Processed == IF pc = "statements" THEN SubSeq(program, 1, i - 1) ELSE program

RECURSIVE LastAlias(_, _)
LastAlias(prog, s) ==
    IF prog = <<>> THEN None
    ELSE LET last == prog[Len(prog)]
         IN  IF last.kind = "Define" /\ to_string(last.define.symbol) = s
                /\ last.define.alias # None
             THEN last.define.alias
             ELSE LastAlias(SubSeq(prog, 1, Len(prog) - 1), s)

RECURSIVE LastTargetReturn(_, _)
LastTargetReturn(prog, s) ==
    IF prog = <<>> THEN None
    ELSE LET last == prog[Len(prog)]
         IN  IF last.kind = "Define" /\ to_string(last.define.symbol) = s
                /\ last.define.target_return # None
             THEN last.define.target_return
             ELSE LastTargetReturn(SubSeq(prog, 1, Len(prog) - 1), s)

C10_DefineKeepsOmittedFields ==
    /\ \A s \in DefinedSymbols(Processed) :
         /\ s \in DOMAIN state.assets
         /\ state.assets[s].alias = LastAlias(Processed, s)
         /\ state.assets[s].target_return = LastTargetReturn(Processed, s)
    /\ Finished =>
         \A s \in DefinedSymbols(program) :
           Asset_new(s, LastAlias(program, s), LastTargetReturn(program, s))
             \in AssetSet(result.report)

\* three Defines of one symbol applied: the second overwrites the alias of the
\* first and adds a target return, the third overwrites the target return and
\* gives no alias
C10_Witness ==
    /\ pc = "statements" /\ i = 4
    /\ \A k \in 1..3 : IsDefineOf(program[k], SymAX)
    /\ program[1].define.alias # None
    /\ program[2].define.alias \notin {None, program[1].define.alias}
    /\ program[2].define.target_return # None
    /\ program[3].define.alias = None
    /\ program[3].define.target_return \notin {None, program[2].define.target_return}
    /\ state.assets[to_string(SymAX)].alias = program[2].define.alias
    /\ state.assets[to_string(SymAX)].target_return = program[3].define.target_return

(***************************************************************************)
(* C11: the step that applies a Portfolio statement appends one            *)
(* materialized portfolio and leaves the earlier ones alone; the new one   *)
(* has the statement's name and one Asset per listed symbol, in listed     *)
(* order: the registry's Asset of the symbol at that moment, which shows   *)
(* the alias and target return of the Defines placed earlier, or an Asset  *)
(* with neither when the registry has none; its target return is the       *)
(* statement's, or 0 when the statement gives none.                        *)
(***************************************************************************)
C11_PortfolioResolvesRegistry ==
    [][AtStatement("Portfolio") =>
        LET statement == program[i].portfolio
            earlier == SubSeq(program, 1, i - 1)
            n == Len(state.portfolios)
        IN  /\ Len(state'.portfolios) = n + 1
            /\ SubSeq(state'.portfolios, 1, n) = state.portfolios
            /\ LET portfolio == state'.portfolios[n + 1]
               IN  /\ portfolio.name = statement.name
                   /\ Len(portfolio.assets) = Len(statement.assets)
                   /\ \A k \in 1..Len(statement.assets) :
                        LET s == to_string(statement.assets[k])
                        IN  /\ portfolio.assets[k].symbol = s
                            /\ s \in DOMAIN state.assets =>
                                 /\ portfolio.assets[k] = state.assets[s]
                                 /\ portfolio.assets[k].alias = LastAlias(earlier, s)
                                 /\ portfolio.assets[k].target_return
                                      = LastTargetReturn(earlier, s)
                            /\ s \notin DOMAIN state.assets =>
                                 /\ portfolio.assets[k].alias = None
                                 /\ portfolio.assets[k].target_return = None
                   /\ statement.target_return = None => portfolio.target_return = 0
                   /\ statement.target_return # None =>
                        portfolio.target_return = statement.target_return[1]
    ]_vars

\* a Define with an alias and a target return, then a Portfolio without target
\* return listing the defined symbol and another one: the portfolio shows the
\* alias and the target return of the first and a bare Asset for the second
C11_Witness ==
    /\ pc = "statements" /\ i = 3
    /\ IsDefineOf(program[1], SymAX)
    /\ program[1].define.alias # None /\ program[1].define.target_return # None
    /\ program[2].kind = "Portfolio"
    /\ program[2].portfolio.assets = <<SymAX, SymBY>>
    /\ program[2].portfolio.target_return = None
    /\ Len(state.portfolios) = 1
    /\ state.portfolios[1].assets
         = <<Asset_new(to_string(SymAX), program[1].define.alias,
                       program[1].define.target_return),
             Asset_new(to_string(SymBY), None, None)>>
    /\ state.portfolios[1].target_return = 0

(***************************************************************************)
(* What the claims read off a text and a step of tokenize                  *)
(***************************************************************************)
\* the text from the start of the next token
Rest == SubSeq(lexer.input, TokenStart.position + 1, Len(lexer.input))

\* the k-th character of a text, '\0' past its end
At(text, k) == IF k \in DOMAIN text THEN text[k] ELSE NUL

\* the number of characters from the k-th on that are digits, that are
\* identifier characters, that are letters or digits
RECURSIVE DigitRun(_, _)
DigitRun(text, k) ==
    IF is_ascii_digit(At(text, k)) THEN 1 + DigitRun(text, k + 1) ELSE 0

RECURSIVE IdentRun(_, _)
IdentRun(text, k) ==
    IF is_identifier_char(At(text, k)) THEN 1 + IdentRun(text, k + 1) ELSE 0

RECURSIVE AlnumRun(_, _)
AlnumRun(text, k) ==
    IF is_identifier_char(At(text, k)) /\ At(text, k) # Ch("_")
    THEN 1 + AlnumRun(text, k + 1) ELSE 0

\* the step scans one token of n characters and the loop goes on
Emitted(token, n) ==
    /\ pc' = "tokenize"
    /\ tokens' = Append(tokens, token)
    /\ lexer'.position = TokenStart.position + n

\* the step ends tokenize with a LexError and no token list
Failed ==
    /\ pc' = "tokenized"
    /\ lexed'.status = "Err"
    /\ DOMAIN lexed' = {"status", "error"}

\* tokenize has returned the token list
Lexed(toks) == pc = "tokenized" /\ lexed = LexedOk(toks)

(***************************************************************************)
(* C12: a step of tokenize that starts a token at four digits, '-', two    *)
(* digits, '-', two digits, with no further digit after them, appends one  *)
(* Date token whose string is these ten characters (so not a Number        *)
(* token), whatever the digits of the month and of the day are.            *)
(***************************************************************************)
DateShaped(text) ==
    /\ DigitRun(text, 1) = 4
    /\ At(text, 5) = Ch("-")
    /\ DigitRun(text, 6) = 2
    /\ At(text, 8) = Ch("-")
    /\ DigitRun(text, 9) = 2

C12_DateShapeLexesAsDate ==
    [][StartsToken /\ DateShaped(Rest) =>
         Emitted(TokStr("Date", SubSeq(Rest, 1, 10)), 10)]_vars

\* "2024-99-99-5" has been tokenized: a Date with month 99 and day 99, then
\* Minus and a Number
C12_Witness ==
    /\ lexer.input = Chars(<<"2", "0", "2", "4", "-", "9", "9", "-", "9", "9", "-", "5">>)
    /\ Lexed(<<TokStr("Date", SubSeq(lexer.input, 1, 10)), Tok("Minus"),
               TokNumber(5), Tok("Eof")>>)

(***************************************************************************)
(* C13: an input NAME1:NAME2, both of one or more letters and digits and   *)
(* NAME1 not starting with a digit, is tokenized as Symbol(NAME1, NAME2),  *)
(* Eof with both strings as written; a step of tokenize that starts a      *)
(* token at an identifier followed by ':' and then no identifier character *)
(* ends tokenize with a LexError.                                          *)
(***************************************************************************)
\* NAME1:NAME2, both non-empty runs of letters and digits
NameColonName(text) ==
    LET n1 == AlnumRun(text, 1)
        n2 == AlnumRun(text, n1 + 2)
    IN  /\ n1 >= 1
        /\ At(text, n1 + 1) = Ch(":")
        /\ n2 >= 1
        /\ n1 + 1 + n2 = Len(text)

NAME1(text) == SubSeq(text, 1, AlnumRun(text, 1))

NAME2(text) == SubSeq(text, AlnumRun(text, 1) + 2, Len(text))

\* an identifier, ':' and no identifier character
BareColon(text) ==
    /\ is_identifier_start(At(text, 1))
    /\ At(text, IdentRun(text, 1) + 1) = Ch(":")
    /\ ~is_identifier_char(At(text, IdentRun(text, 1) + 2))

\* as the claim is written: whatever NAME1 starts with
C13_EveryNameColonNameIsSymbol ==
    [][/\ pc' = "tokenized" /\ NameColonName(lexer.input) =>
            lexed' = LexedOk(<<TokSymbol(NAME1(lexer.input), NAME2(lexer.input)),
                               Tok("Eof")>>)
       /\ StartsToken /\ BareColon(Rest) => Failed]_vars

C13_SymbolKeepsCase ==
    [][/\ pc' = "tokenized" /\ NameColonName(lexer.input)
          /\ ~is_ascii_digit(lexer.input[1]) =>
            lexed' = LexedOk(<<TokSymbol(NAME1(lexer.input), NAME2(lexer.input)),
                               Tok("Eof")>>)
       /\ StartsToken /\ BareColon(Rest) => Failed]_vars

\* "Date:x5" has been tokenized
C13_Witness ==
    /\ lexer.input = Chars(<<"D", "a", "t", "e", ":", "x", "5">>)
    /\ Lexed(<<TokSymbol(Chars(<<"D", "a", "t", "e">>), Chars(<<"x", "5">>)),
               Tok("Eof")>>)

(***************************************************************************)
(* C14: a step of tokenize that starts a token at a digit, where the text  *)
(* is not of the shape of a date, appends a Number token for the first run *)
(* of digits and the '.' and digits that may follow it, and consumes no    *)
(* more; "2024-5" is tokenized as Number, Minus, Number, Eof.              *)
(***************************************************************************)
\* the length of the first run of digits with the '.' and digits after it
NumberLen(text) ==
    LET d == DigitRun(text, 1)
    IN  IF At(text, d + 1) = Ch(".") THEN d + 1 + DigitRun(text, d + 2) ELSE d

C14_FailedDateFallsBackToNumber ==
    [][/\ StartsToken /\ is_ascii_digit(At(Rest, 1)) /\ ~DateShaped(Rest) =>
            LET n == NumberLen(Rest)
            IN  Emitted(TokNumber(parse_f64(SubSeq(Rest, 1, n)).value), n)
       /\ pc' = "tokenized" /\ lexer.input = Chars(<<"2", "0", "2", "4", "-", "5">>) =>
            lexed' = LexedOk(<<TokNumber(Round(2024)), Tok("Minus"), TokNumber(5),
                               Tok("Eof")>>)]_vars

(***************************************************************************)
(* C15: a step of tokenize that starts a token at a '-' followed by a      *)
(* digit appends the Minus token and consumes the '-' alone; an input of   *)
(* '-' and digits is tokenized as Minus, Number of the digits' value, Eof; *)
(* no Number token in the token list has a negative value.                 *)
(***************************************************************************)
MinusDigits(text) ==
    /\ At(text, 1) = Ch("-")
    /\ DigitRun(text, 2) >= 1
    /\ 1 + DigitRun(text, 2) = Len(text)

C15_MinusIsItsOwnToken ==
    [][/\ StartsToken /\ At(Rest, 1) = Ch("-") /\ is_ascii_digit(At(Rest, 2)) =>
            Emitted(Tok("Minus"), 1)
       /\ pc' = "tokenized" /\ MinusDigits(lexer.input) =>
            lexed' = LexedOk(<<Tok("Minus"),
                               TokNumber(Round(DigitsValue(Tail(lexer.input)))),
                               Tok("Eof")>>)
       /\ \A k \in DOMAIN tokens' :
            tokens'[k].type = "Number" => tokens'[k].number >= 0]_vars

\* "-52024" has been tokenized: Minus, then the Number of 52024
C15_Witness ==
    /\ lexer.input = Chars(<<"-", "5", "2", "0", "2", "4">>)
    /\ Lexed(<<Tok("Minus"), TokNumber(Round(52024)), Tok("Eof")>>)

(***************************************************************************)
(* C16: a step of tokenize that starts a token at a '"', where the text    *)
(* has a newline character before the closing quote, directly after a      *)
(* backslash or not, or has no closing quote, ends tokenize with a         *)
(* LexError and no token list.                                             *)
(***************************************************************************)
\* the index of the closing quote of the string literal that the text starts
\* with, looked for from the k-th character on: the first '"' that no
\* backslash escapes; 0 if there is none
RECURSIVE ClosingQuote(_, _)
ClosingQuote(text, k) ==
    IF k > Len(text) THEN 0
    ELSE IF text[k] = Ch("\\") THEN ClosingQuote(text, k + 2)
    ELSE IF text[k] = Ch("\"") THEN k
    ELSE ClosingQuote(text, k + 1)

NewlineBefore(text, close) == \E j \in 2..(close - 1) : text[j] = Ch("\n")

C16_NewlineInStringFails ==
    [][StartsToken /\ At(Rest, 1) = Ch("\"")
         /\ (ClosingQuote(Rest, 2) = 0 \/ NewlineBefore(Rest, ClosingQuote(Rest, 2)))
       => Failed]_vars

(***************************************************************************)
(* C17: a step of tokenize that starts a token at a letter or '_', where   *)
(* no ':' follows the word (the run of identifier characters), appends one *)
(* token and consumes the word alone: the keyword of the table that the    *)
(* word equals ignoring case, or else Identifier with the word as written. *)
(* The word END gives End, END_DATE gives EndDate, and any other word that *)
(* begins with END_ gives Identifier.                                      *)
(***************************************************************************)
WordToken(word) ==
    IF \E kw \in Keywords : kw[1] = to_uppercase(word)
    THEN Tok((CHOOSE kw \in Keywords : kw[1] = to_uppercase(word))[2])
    ELSE TokStr("Identifier", word)

END == Chars(<<"E", "N", "D">>)

END_DATE == Chars(<<"E", "N", "D", "_", "D", "A", "T", "E">>)

C17_WordIsKeywordOrIdentifier ==
    [][StartsToken /\ is_identifier_start(At(Rest, 1))
         /\ At(Rest, IdentRun(Rest, 1) + 1) # Ch(":") =>
         LET n == IdentRun(Rest, 1)
             word == SubSeq(Rest, 1, n)
         IN  /\ Emitted(WordToken(word), n)
             /\ word = END => Emitted(Tok("End"), 3)
             /\ to_uppercase(word) = END_DATE => Emitted(Tok("EndDate"), 8)
             /\ n > 4 /\ SubSeq(word, 1, 4) = SubSeq(END_DATE, 1, 4)
                  /\ to_uppercase(word) # END_DATE =>
                  Emitted(TokStr("Identifier", word), n)]_vars

\* "END_Date" has been tokenized: the one token EndDate
C17_Witness ==
    /\ lexer.input = Chars(<<"E", "N", "D", "_", "D", "a", "t", "e">>)
    /\ Lexed(<<Tok("EndDate"), Tok("Eof")>>)

(***************************************************************************)
(* What the claims read off a token list and a step of parse               *)
(***************************************************************************)
\* the token list less its Eof
Body == SubSeq(parser.tokens, 1, Len(parser.tokens) - 1)

IsComment(token) == token.type = "Comment"

NotComment(token) == token.type # "Comment"

\* the complete statements that the token list starts with, each the longest
\* that fits
FirstStatement(toks) ==
    LET fits == {s \in StatementTokens :
                   Len(s) <= Len(toks) /\ SubSeq(toks, 1, Len(s)) = s}
    IN  IF fits = {} THEN <<>>
        ELSE CHOOSE s \in fits : \A t \in fits : Len(t) <= Len(s)

\* the tokens left after the complete statements at the front of the list
RECURSIVE Remainder(_)
Remainder(toks) ==
    IF FirstStatement(toks) = <<>> THEN toks
    ELSE Remainder(SubSeq(toks, Len(FirstStatement(toks)) + 1, Len(toks)))

\* the list ends before its last statement is complete
EndsEarly(toks) == (\A k \in DOMAIN toks : NotComment(toks[k])) /\ Remainder(toks) # <<>>

(***************************************************************************)
(* C18: the step of parse that meets an unmet expectation ends parse with  *)
(* a ParseError and nothing else, whatever statements were parsed before,  *)
(* and leaves the parser at the token of the error or directly after it;   *)
(* parse of a token list that ends before its last statement is complete   *)
(* returns a ParseError.                                                   *)
(***************************************************************************)
C18_ParseStopsAtFirstError ==
    [][/\ pc' = "parsed" /\ parsed'.status = "Err" =>
            /\ DOMAIN parsed' = {"status", "error"}
            /\ parsed'.error.position <= parser'.current
            /\ parser'.current <= parsed'.error.position + 1
       /\ StartsStatement /\ ~parse_statement(StatementStart).ok =>
            pc' = "parsed" /\ parsed'.status = "Err"
       /\ pc' = "parsed" /\ EndsEarly(Body) => parsed'.status = "Err"]_vars

\* a statement has been parsed, the PLAN block after it has no END, and
\* parse has returned a ParseError
C18_Witness ==
    /\ pc = "parsed" /\ parsed.status = "Err"
    /\ Len(statements) = 1
    /\ EndsEarly(Body)
    /\ Len(Body) > 10
    /\ Body[Len(Body) - 9].type = "Plan"
    /\ Body[Len(Body)].type = "Date"

(***************************************************************************)
(* C19: a step of parse that adds a Trade record leaves its amount with    *)
(* the sign Negative if a Minus token directly precedes the Number token   *)
(* of the amount, and Positive if a Plus token or no sign token does; the  *)
(* magnitude is the Number's value and not negative; buy() holds iff the   *)
(* sign is Positive, sell() iff it is Negative, and exactly one of them    *)
(* holds.                                                                  *)
(***************************************************************************)
\* the index of the first Number token after the k-th token of the list
RECURSIVE NextNumber(_, _)
NextNumber(toks, k) ==
    IF toks[k + 1].type = "Number" THEN k + 1 ELSE NextNumber(toks, k + 1)

C19_TradeSignFollowsToken ==
    [][pc = "parse" /\ Len(statements') = Len(statements) + 1
         /\ statements'[Len(statements')].kind = "Record"
         /\ statements'[Len(statements')].record.action = "Trade" =>
         LET trade == statements'[Len(statements')].record.details
             n == NextNumber(parser.tokens, parser.current)
             before == parser.tokens[n - 1].type
         IN  /\ trade.signed_amount.sign = "Negative" <=> before = "Minus"
             /\ trade.signed_amount.sign = "Positive" <=> before # "Minus"
             /\ before \in {"Minus", "Plus", "Symbol"}
             /\ trade.signed_amount.value = parser.tokens[n].number
             /\ trade.signed_amount.value >= 0
             /\ buy(trade) <=> trade.signed_amount.sign = "Positive"
             /\ sell(trade) <=> trade.signed_amount.sign = "Negative"
             /\ buy(trade) # sell(trade)]_vars

\* two trades parsed: a sell written with a Minus token and a buy written with
\* no sign token
C19_Witness ==
    /\ pc = "parsed" /\ parsed.status = "Ok"
    /\ Len(parsed.program) = 2
    /\ \A k \in 1..2 : /\ parsed.program[k].kind = "Record"
                       /\ parsed.program[k].record.action = "Trade"
    /\ sell(parsed.program[1].record.details)
    /\ buy(parsed.program[2].record.details)
    /\ parser.tokens[4].type = "Minus"
    /\ \E k \in DOMAIN parser.tokens :
         parser.tokens[k].type = "Symbol" /\ parser.tokens[k + 1].type = "Number"

(***************************************************************************)
(* C20: parse of a token list made of complete statements and Comment      *)
(* tokens returns the Program of the statements, the same as without the   *)
(* Comment tokens, if every Comment token stands where a statement may     *)
(* start (before the first, between two, after the last), and returns a    *)
(* ParseError if a Comment token stands inside a statement.                *)
(***************************************************************************)
\* the Statement that each of the complete statements stands for
ExpectedTrade(sym, sign, value, price, note) ==
    [kind |-> "Record",
     record |-> [date |-> Date9, action |-> "Trade",
                 details |-> [kind |-> "Trade", symbol |-> sym,
                              signed_amount |-> [sign |-> sign, value |-> value],
                              unit |-> TUnit.value, price |-> price],
                 note |-> note]]

ExpectedStatement(s) ==
    CASE s = TradeTokens ->
            ExpectedTrade(SymAX, "Negative", 5, Some(2), Some(TString.value))
      [] s = SubSeq(TradeTokens, 1, 8) -> ExpectedTrade(SymAX, "Negative", 5, Some(2), None)
      [] s = SubSeq(TradeTokens, 1, 6) -> ExpectedTrade(SymAX, "Negative", 5, None, None)
      [] s[1].type = "Date" /\ s[2].type = "Trade" /\ s[4].type = "Plus" ->
            ExpectedTrade(SymBY, "Positive", 2, None, None)
      [] s[1].type = "Date" /\ s[2].type = "Trade" /\ s[4].type = "Number" ->
            ExpectedTrade(SymBY, "Positive", 2, None, None)
      [] s[1].type = "Date" /\ s[2].type = "Mark" ->
            [kind |-> "Record",
             record |-> [date |-> Date9, action |-> "Mark",
                         details |-> [kind |-> "Mark", symbol |-> SymAX, value |-> 5,
                                      unit |-> TUnit.value],
                         note |-> None]]
      [] s[1].type = "Plan" ->
            PlanStmt(TString.value,
                     <<[kind |-> "Schedule", frequency |-> "Monthly", amount |-> 2,
                        unit |-> TUnit.value, target |-> SymCZ],
                       [kind |-> "StartDate", date |-> Date9]>>)
      [] s[1].type = "Define" -> Define(SymAX, Some(TString.value), Some(7))
      [] s[1].type = "Portfolio" ->
            PortfolioStmt(TString.value, <<SymAX, SymBY>>, Some(9))

RECURSIVE ExpectedProgram(_)
ExpectedProgram(toks) ==
    IF toks = <<>> THEN <<>>
    ELSE <<ExpectedStatement(FirstStatement(toks))>>
           \o ExpectedProgram(SubSeq(toks, Len(FirstStatement(toks)) + 1, Len(toks)))

\* the numbers of tokens before the places where a statement may start
RECURSIVE Boundaries(_, _)
Boundaries(toks, offset) ==
    IF toks = <<>> THEN {offset}
    ELSE {offset} \cup Boundaries(SubSeq(toks, Len(FirstStatement(toks)) + 1, Len(toks)),
                                  offset + Len(FirstStatement(toks)))

\* the token list less its Comment tokens
Stripped == SelectSeq(Body, NotComment)

\* every Comment token stands where a statement may start
CommentsBetweenStatements ==
    \A k \in DOMAIN Body :
        IsComment(Body[k]) =>
            Len(SelectSeq(SubSeq(Body, 1, k), NotComment)) \in Boundaries(Stripped, 0)

C20_CommentsOnlyBetweenStatements ==
    [][pc' = "parsed" /\ Remainder(Stripped) = <<>> =>
         IF CommentsBetweenStatements
         THEN parsed' = ParsedOk(ExpectedProgram(Stripped))
         ELSE parsed'.status = "Err"]_vars

\* two statements parsed from a list with a Comment token between them
C20_Witness ==
    /\ pc = "parsed" /\ parsed.status = "Ok"
    /\ Len(parsed.program) = 2
    /\ \E k \in 2..(Len(Body) - 1) : IsComment(Body[k])
    /\ parsed.program = ExpectedProgram(Stripped)

(***************************************************************************)
(* C21: evaluate applies no Record while it walks the statements, and when *)
(* it stands before the first Record of the replay the registry and the    *)
(* portfolio list are those of the program's Define and Portfolio          *)
(* statements applied in program order to a fresh state, as if the Records *)
(* were not in the program text.                                           *)
(***************************************************************************)
IsDeclaration(stmt) == stmt.kind \in {"Define", "Portfolio"}

\* the Define and Portfolio statements applied in order to the state st
RECURSIVE ApplyDeclarations(_, _)
ApplyDeclarations(st, decls) ==
    IF decls = <<>> THEN st
    ELSE LET stmt == Head(decls)
             r == IF stmt.kind = "Define"
                  THEN evaluate_define(st, stmt.define)
                  ELSE evaluate_portfolio(st, stmt.portfolio)
         IN  ApplyDeclarations(r.st, Tail(decls))

BeforeFirstRecord == pc = "records" /\ i = 1

C21_DeclarationsBeforeRecords ==
    /\ pc = "statements" =>
         /\ state.record_outputs = <<>>
         /\ state.snapshots = EmptyMap
         /\ record_statements = ProgramRecords(SubSeq(program, 1, i - 1))
    /\ BeforeFirstRecord =>
         LET declared == ApplyDeclarations(Engine_new, SelectSeq(program, IsDeclaration))
         IN  /\ state.assets = declared.assets
             /\ state.portfolios = declared.portfolios
             /\ state.record_outputs = <<>>

\* a program that starts with a Record of a symbol, followed by a Define of
\* the symbol and a Portfolio that lists it: the Record is about to be applied
\* and the portfolio already holds the defined Asset
C21_Witness ==
    /\ BeforeFirstRecord
    /\ Len(program) = 3
    /\ program[1].kind = "Record"
    /\ IsDefineOf(program[2], program[1].record.details.symbol)
    /\ program[2].define.alias # None
    /\ program[3].kind = "Portfolio"
    /\ Len(record_statements) = 1
    /\ Len(state.portfolios) = 1
    /\ state.portfolios[1].assets[1].alias = program[2].define.alias

(***************************************************************************)
(* C22: the step that applies a Record of symbol S leaves the registry     *)
(* with an entry for S: the entry it had, alias and target return          *)
(* unchanged, or a new one with no alias and no target return; after the   *)
(* step every Asset copy for S in a materialized portfolio equals the      *)
(* registry's entry for S.  The step changes no other entry of the         *)
(* registry and no other copy of a portfolio.                              *)
(***************************************************************************)
C22_RecordUpsertsAndPropagates ==
    [][AtRecord =>
        LET s == RecordSymbol(record_statements[i])
        IN  /\ DOMAIN state'.assets = DOMAIN state.assets \cup {s}
            /\ s \in DOMAIN state.assets => state'.assets[s] = state.assets[s]
            /\ s \notin DOMAIN state.assets => state'.assets[s] = Asset_new(s, None, None)
            /\ \A x \in DOMAIN state.assets : x # s => state'.assets[x] = state.assets[x]
            /\ Len(state'.portfolios) = Len(state.portfolios)
            /\ \A p \in DOMAIN state.portfolios :
                 /\ DOMAIN state'.portfolios[p].assets = DOMAIN state.portfolios[p].assets
                 /\ \A k \in DOMAIN state.portfolios[p].assets :
                      IF state.portfolios[p].assets[k].symbol = s
                      THEN state'.portfolios[p].assets[k] = state'.assets[s]
                      ELSE state'.portfolios[p].assets[k] = state.portfolios[p].assets[k]
    ]_vars

\* a Portfolio that lists a symbol, then a Define of the symbol with an alias
\* (which the portfolio's copy does not show), then a Record of the symbol:
\* after the Record is applied the copy has the alias
C22_Witness ==
    /\ pc = "records" /\ i = 2
    /\ Len(program) = 3
    /\ program[1].kind = "Portfolio"
    /\ program[2].kind = "Define"
    /\ program[2].define.alias # None
    /\ program[3].kind = "Record"
    /\ LET s == RecordSymbol(program[3].record)
       IN  /\ to_string(program[2].define.symbol) = s
           /\ to_string(program[1].portfolio.assets[1]) = s
           /\ state.portfolios[1].assets[1] = state.assets[s]
           /\ state.assets[s].alias = program[2].define.alias

(***************************************************************************)
(* C23: the assets of the report of a fresh Engine hold one Asset for      *)
(* every symbol of a Define statement or of a Record of the program, and   *)
(* no other: a symbol that only a Portfolio lists or only a Plan targets   *)
(* is not among them, though the portfolio of the report holds an Asset    *)
(* with no alias and no target return for it.                              *)
(***************************************************************************)
ListedSymbols(prog) ==
    UNION {{to_string(prog[p].portfolio.assets[k]) : k \in DOMAIN prog[p].portfolio.assets} :
           p \in {q \in DOMAIN prog : prog[q].kind = "Portfolio"}}

AssetSymbols(report) == {a.symbol : a \in AssetSet(report)}

C23_AssetsAreDefinedOrRecorded ==
    Finished =>
        LET referenced == DefinedSymbols(program) \cup RecordedSymbols(program)
        IN  /\ AssetSymbols(result.report) = referenced
            /\ Len(result.report.assets) = Cardinality(referenced)
            /\ \A s \in (ListedSymbols(program) \cup PlanTargets(program)) \ referenced :
                 /\ s \notin AssetSymbols(result.report)
                 /\ \A p \in DOMAIN result.report.portfolios :
                      \A k \in DOMAIN result.report.portfolios[p].assets :
                        result.report.portfolios[p].assets[k].symbol = s
                        => result.report.portfolios[p].assets[k] = Asset_new(s, None, None)

\* a report with two records of one symbol and a portfolio that lists that
\* symbol and one that occurs nowhere else: one Asset, and a placeholder in
\* the portfolio
C23_Witness ==
    /\ Finished
    /\ Len(ProgramRecords(program)) = 2
    /\ Cardinality(RecordedSymbols(program)) = 1
    /\ Len(result.report.assets) = 1
    /\ Len(result.report.portfolios) = 1
    /\ \E k \in DOMAIN result.report.portfolios[1].assets :
         result.report.portfolios[1].assets[k].symbol \notin AssetSymbols(result.report)

(***************************************************************************)
(* C24: in the report of a fresh Engine every Record of the program is one *)
(* per-record snapshot: there are as many snapshots, over all symbols and  *)
(* days, as Record statements; the snapshots of a symbol and a date are    *)
(* the program's records of that symbol and date; no DailySnapshot is      *)
(* empty; and every snapshot has the symbol and the date of the            *)
(* DailySnapshot that holds it, which is filed under that symbol.          *)
(***************************************************************************)
\* where the snapshots of a daily_snapshot mapping are: symbol, day, index
SnapshotPlaces(daily) ==
    UNION {UNION {{<<s, a, k>> : k \in DOMAIN daily[s][a].snapshots} :
                  a \in DOMAIN daily[s]} :
           s \in DOMAIN daily}

C24_EveryRecordOneSnapshot ==
    Finished =>
        LET recs == ProgramRecords(program)
            daily == result.report.daily_snapshot
        IN  /\ Cardinality(SnapshotPlaces(daily)) = Len(recs)
            /\ \A k \in DOMAIN recs :
                 \E a \in DOMAIN daily[RecordSymbol(recs[k])] :
                   /\ daily[RecordSymbol(recs[k])][a].date = recs[k].date
                   /\ \E j \in DOMAIN daily[RecordSymbol(recs[k])][a].snapshots :
                        daily[RecordSymbol(recs[k])][a].snapshots[j].statement = recs[k]
            /\ \A s \in DOMAIN daily : \A a \in DOMAIN daily[s] :
                 LET day == daily[s][a]
                 IN  /\ day.snapshots # <<>>
                     /\ day.symbol = s
                     /\ [j \in DOMAIN day.snapshots |-> day.snapshots[j].statement]
                          = RecordsOn(RecordsOf(recs, s), day.date)
                     /\ \A j \in DOMAIN day.snapshots :
                          /\ day.snapshots[j].symbol = day.symbol
                          /\ day.snapshots[j].date = day.date
                          /\ RecordSymbol(day.snapshots[j].statement) = day.symbol
                          /\ day.snapshots[j].statement.date = day.date

\* three records, of two symbols and two dates, two of them of one symbol
\* and one date: three snapshots in three places, two in one DailySnapshot
C24_Witness ==
    /\ Finished
    /\ Len(ProgramRecords(program)) = 3
    /\ Cardinality(DOMAIN result.report.daily_snapshot) = 2
    /\ \E s \in DOMAIN result.report.daily_snapshot :
         \E a \in DOMAIN result.report.daily_snapshot[s] :
           Len(result.report.daily_snapshot[s][a].snapshots) = 2

(***************************************************************************)
(* C25: when parse returns a ParseError, the error's position is the index *)
(* in the token list of the first token that did not meet the grammar's    *)
(* expectation and the message names that token; for a token list that     *)
(* ends before its last statement is complete that token is the Eof at the *)
(* end of the list.                                                        *)
(***************************************************************************)
C25_ErrorNamesOffendingToken ==
    pc = "parsed" /\ parsed.status = "Err" =>
        LET toks == parser.tokens
            error == parsed.error
        IN  /\ error.position \in 0..(Len(toks) - 1)
            /\ error.message.found = Some(toks[error.position + 1])
            /\ EndsEarly(Body) =>
                 /\ error.position = Len(toks) - 1
                 /\ error.message.found = Some(Tok("Eof"))

(***************************************************************************)
(* C26: a second call of evaluate on the same Engine returns what a fresh  *)
(* Engine returns for the program of that call: with the program of the    *)
(* first call passed again, the second report has the contents of the      *)
(* first, which a fresh Engine made.                                       *)
(***************************************************************************)
C26_SecondCallLikeFresh ==
    SecondFinished("same engine") => SameContents(first.report, result.report)

(***************************************************************************)
(* C27: the step that applies a Record of symbol A leaves the latest       *)
(* output of every other symbol as it was, and computes the new output of  *)
(* A from A's latest output alone; in the report of a fresh Engine the     *)
(* DailySnapshots of a symbol are those of the report of the program with  *)
(* the records of all other symbols removed.                               *)
(***************************************************************************)
\* the program less the records of symbols other than s
WithoutOtherRecords(prog, s) ==
    LET Keep(stmt) == stmt.kind = "Record" => RecordSymbol(stmt.record) = s
    IN  SelectSeq(prog, Keep)

\* the records applied in order to the state st
RECURSIVE Replay(_, _)
Replay(st, recs) ==
    IF recs = <<>> THEN st
    ELSE Replay(evaluate_record(st, Head(recs)).st, Tail(recs))

\* the daily_snapshot mapping that a fresh Engine reports for a program
FreshDailySnapshot(prog) ==
    LET declared == ApplyDeclarations(Engine_new, SelectSeq(prog, IsDeclaration))
        replayed == Replay(declared, sort_by_date(ProgramRecords(prog)))
    IN  aggregate(EmptyMap, replayed.record_outputs)

C27_SymbolsDoNotInterfere ==
    [][/\ AtRecord =>
            LET a == RecordSymbol(record_statements[i])
                last == IF a \in DOMAIN state.snapshots
                        THEN AssetMetric_from_record(state.snapshots[a])
                        ELSE AssetMetric_new_zero
            IN  /\ DOMAIN state'.snapshots = DOMAIN state.snapshots \cup {a}
                /\ \A b \in DOMAIN state.snapshots :
                     b # a => state'.snapshots[b] = state.snapshots[b]
                /\ AssetMetric_from_record(state'.snapshots[a])
                     = apply_details(last, record_statements[i].details)
       /\ (pc' = "done" /\ result'.status = "Ok") =>
            /\ \A s \in DOMAIN result'.report.daily_snapshot :
                 result'.report.daily_snapshot[s]
                   = FreshDailySnapshot(WithoutOtherRecords(program, s))[s]
    ]_vars

\* a buy of one symbol, a mark of another, then a sell of the first, all on
\* one date: the report is made and the sell's snapshot continues the buy's
C27_Witness ==
    /\ Finished
    /\ Len(program) = 3
    /\ \A k \in 1..3 : program[k].kind = "Record"
    /\ IsBuy(program[1].record) /\ IsSell(program[3].record)
    /\ program[2].record.details.kind = "Mark"
    /\ RecordSymbol(program[1].record) = RecordSymbol(program[3].record)
    /\ RecordSymbol(program[2].record) # RecordSymbol(program[1].record)
    /\ program[1].record.date = program[2].record.date
    /\ program[3].record.date = program[2].record.date
    /\ LET snaps == result.report.daily_snapshot[RecordSymbol(program[1].record)][1].snapshots
       IN  /\ Len(snaps) = 2
           /\ snaps[2].total_purchase = snaps[1].total_purchase
           /\ snaps[2].total_sale > 0

(***************************************************************************)
(* C28: tokenize and parse return on every input.  A turn of the loop of   *)
(* tokenize leaves the lexer further on in the text or returns, and the    *)
(* lexer's position never decreases; a turn of the loop of parse leaves    *)
(* the parser further on in the token list or returns; at every place of   *)
(* the token list where the loop of a PLAN, DEFINE or PORTFOLIO body goes  *)
(* on, one turn of it ends in an error, leaves the loop, or leaves the     *)
(* parser further on; and every call reaches its return.                   *)
(***************************************************************************)
\* the parser at the k-th token of its list
ParserAt(k) == [parser EXCEPT !.current = k]

BodyLoopGoesOn(p) == ~check(p, "End") /\ ~Parser_is_at_end(p)

\* r is an error, or the parser of r is further on than the k-th token
FurtherOn(r, k) == r.ok => r.p.current > k

BodyLoopsAdvance ==
    \A k \in 0..Len(parser.tokens) :
        BodyLoopGoesOn(ParserAt(k)) =>
            /\ FurtherOn(parse_plan_rule(ParserAt(k)), k)
            /\ Parser_peek(ParserAt(k)).type = "Alias" =>
                 FurtherOn(parse_string(Parser_advance(ParserAt(k))), k)
            /\ Parser_peek(ParserAt(k)).type = "Assets" =>
                 FurtherOn(parse_symbol_list(Parser_advance(ParserAt(k)), <<>>), k)
            /\ Parser_peek(ParserAt(k)).type = "Target" =>
                 FurtherOn(parse_target_return(Parser_advance(ParserAt(k))), k)

Returned == pc \in {"tokenized", "parsed"}

C28_TokenizeAndParseTerminate ==
    /\ [][/\ lexer'.position >= lexer.position
          /\ pc = "tokenize" => (pc' = "tokenized" \/ lexer'.position > lexer.position)
          /\ pc = "parse" => (pc' = "parsed" \/ parser'.current > parser.current)
          /\ (pc = "parse" /\ parser.current = 0) => BodyLoopsAdvance]_vars
    /\ <>Returned

\* parse has returned a Program of two statements, the second a PLAN block
\* with two rules: two turns of the loop of parse, two of the body's
C28_Witness ==
    /\ pc = "parsed" /\ parsed.status = "Ok"
    /\ Len(parsed.program) = 2
    /\ parsed.program[2].kind = "Plan"
    /\ Len(parsed.program[2].plan.rules) = 2
    /\ parser.current = Len(parser.tokens) - 1

=============================================================================
